---- MODULE Spec2Model ----
(***************************************************************************)
(* mnemosyne: event-sourced aggregates.  The command pipeline             *)
(*   ingress (Init) -> command topic -> dispatcher (Aggregate)            *)
(*   -> per-entity processor (Inner) -> journal (Adapter)                 *)
(* and the recovery path Engine::state -> Init -> journal.                *)
(*                                                                         *)
(* The library is generic in the user's State, Cmd and Evt types.  The    *)
(* model instantiates them with the free domain: the state is the list of *)
(* events applied so far, so that two folds agree exactly when they apply *)
(* the same events in the same order.                                     *)
(***************************************************************************)
EXTENDS Integers, Sequences, FiniteSets, TLC

\* ------------------------------------------------------------------ bounds

\* Number of records the command topic may hold.
MaxTopic == 2
\* Number of times, in one behaviour, the consumer resumes from the committed
\* offset: the engine is started again, or the consumer group rebalances.
MaxResumes == 1
\* Length of the vectors handed to NonEmptyVec.
MaxVec == 3

\* The messages that wait at one processor at most.
MaxPending == 3

\* The commands submitted to the ingress, and the ticks of its drain timer.
MaxSubmits == 3
MaxDrains == 2

\* The offset commits that wait for the broker at most.
MaxCommitting == 1

\* --------------------------------------------------------- program constants

CHUNK_SIZE == 100
BUFFER_SIZE == 100

\* ------------------------------------------------------------- small helpers

\* Option: None, or Some(x).
None == <<>>
Some(x) == <<x>>
Unwrap(o) == o[1]

\* Result: Ok(v), or Err(e) with the name of the Error variant.
Ok(v) == [ok |-> TRUE, v |-> v]
Err(e) == [ok |-> FALSE, v |-> e]

Min(a, b) == IF a <= b THEN a ELSE b

Range(s) == {s[i] : i \in 1..Len(s)}

RECURSIVE Perms(_)
\* Every sequence that lists each element of the finite set S exactly once.
Perms(S) ==
    IF S = {} THEN {<<>>}
    ELSE UNION {{<<x>> \o p : p \in Perms(S \ {x})} : x \in S}

Take(s, n) == SubSeq(s, 1, Min(n, Len(s)))

\* ----------------------------------------------------------- the user domain

\* Entity ids, as the bytes of their UTF-8 strings: "a" and "b".
Entities == {<<97>>, <<98>>}

\* The event enum of the instantiation, in declaration order.  N is an event
\* whose apply yields no state; X is an event whose Serialize impl fails.
EvtVariants == <<"A", "B", "N", "X">>

Events == Range(EvtVariants)

VariantIndex(ev) == CHOOSE i \in 1..Len(EvtVariants) : EvtVariants[i] = ev

Serializable(ev) == ev # "X"

\* State::default()
DefaultState == <<>>

\* Event::apply: the new state, or None when the event cannot be applied.
apply(ev, st) == IF ev = "N" THEN None ELSE Some(Append(st, ev))

\* The command variants of the instantiation.
Cmds ==
    {"one", "two", "invalid", "second", "nodir", "nodirst", "unenc", "noapply",
     "fx"}

\* Command::validate: TRUE when the command is accepted.  One command is
\* rejected whatever the state, one is rejected while the state is the
\* default one and accepted once an event has been applied to it.
validate(cmd, st) ==
    /\ cmd # "invalid"
    /\ cmd = "second" => st # DefaultState

\* Command::directive: the NonEmptyVec of events, or the error the command
\* chooses to return: the InvalidCommand of NonEmptyVec::new, or, for a
\* command that could not reach a resource it derives its events from, a
\* StorageError.
directive(cmd, st) ==
    CASE cmd = "one" -> Ok(<<"A">>)
      [] cmd = "nodirst" -> Err("StorageError")
      [] cmd = "two" -> Ok(<<"B", "A">>)
      [] cmd = "unenc" -> Ok(<<"A", "X">>)
      [] cmd = "noapply" -> Ok(<<"A", "N">>)
      [] cmd = "fx" -> Ok(<<"B">>)
      [] cmd = "second" -> Ok(<<"B">>)
      [] OTHER -> Err("InvalidCommand")

\* String::from_utf8 of the key of a record.  A byte of 128 or more is part
\* of a multi-byte sequence; the keys here are one byte long, and such a
\* byte on its own is not UTF-8.
from_utf8(bytes) ==
    IF \A i \in 1..Len(bytes) : bytes[i] < 128 THEN Ok(bytes)
    ELSE Err("InvalidKey")

\* serde_json::from_slice::<Record<Cmd>> of the payload of a record: the
\* payload Engine::enqueue produces for a command decodes to that command,
\* other bytes do not decode.
from_slice(payload) ==
    IF payload \in Cmds THEN Ok(payload) ELSE Err("InvalidCommand")

\* The post-commit effects hook: TRUE when it succeeds.
effects(cmd, before, after) == cmd # "fx"

\* ---------------------------------------------------------------- NonEmptyVec

\* NonEmptyVec::new
NonEmptyVecNew(vec) ==
    IF vec = <<>> THEN Err("InvalidCommand") ELSE Ok(vec)

\* NonEmptyVec::one
NonEmptyVecOne(value) == <<value>>

\* NonEmptyVec::into_vec
into_vec(self) == self

\* NonEmptyVec::iter and NonEmptyVec::into_iter: the items from start to end.
iter(self) == [i \in 1..Len(self) |-> self[i]]

\* ------------------------------------------------------------ bytes, records

RECURSIVE Pow256(_)
Pow256(n) == IF n = 0 THEN 1 ELSE 256 * Pow256(n - 1)

\* i64::to_be_bytes / u64::to_be_bytes of a number 0 <= n < 2^31.
to_be_bytes(n) ==
    [i \in 1..8 |-> IF i <= 4 THEN 0 ELSE (n \div Pow256(8 - i)) % 256]

\* The little-endian fixed-width integers of bincode.
to_le_bytes(n, width) ==
    [i \in 1..width |-> IF i > 4 THEN 0 ELSE (n \div Pow256(i - 1)) % 256]

RECURSIVE from_be_bytes(_)
\* u64::from_be_bytes / i64::from_be_bytes.
from_be_bytes(b) ==
    IF Len(b) = 0 THEN 0
    ELSE from_be_bytes(SubSeq(b, 1, Len(b) - 1)) * 256 + b[Len(b)]

RECURSIVE from_le_bytes(_)
from_le_bytes(b) ==
    IF Len(b) = 0 THEN 0 ELSE b[1] + 256 * from_le_bytes(Tail(b))

\* The last 8 bytes of a key.
SeqNrBytes(k) == SubSeq(k, Len(k) - 7, Len(k))

starts_with(k, prefix) ==
    /\ Len(prefix) <= Len(k)
    /\ SubSeq(k, 1, Len(prefix)) = prefix

RECURSIVE LexLeq(_, _)
\* Slice comparison a <= b: lexicographic on bytes, a prefix comes first.
LexLeq(a, b) ==
    IF Len(a) = 0 THEN TRUE
    ELSE IF Len(b) = 0 THEN FALSE
    ELSE IF a[1] # b[1] THEN a[1] < b[1]
    ELSE LexLeq(Tail(a), Tail(b))

\* Record::event
RecordEvent(entity_id, nr, message, timestamp) ==
    [entity_id |-> entity_id, seq_nr |-> nr, timestamp |-> timestamp,
     message |-> message]

\* The RFC 3339 text of a timestamp; the model's clock readings are one
\* digit long.
TimestampText(t) == <<48 + t>>

\* bincode of a string: u64 length, then the bytes.
BincodeStr(s) == to_le_bytes(Len(s), 8) \o s

\* bincode of an event: the u32 index of its enum variant.
BincodeEvt(ev) == to_le_bytes(VariantIndex(ev) - 1, 4)

\* bincode::serialize(&Record<T>): the fields in declaration order; the
\* absent type tag is skipped.
BincodeRecord(r) ==
    BincodeStr(r.entity_id) \o to_le_bytes(r.seq_nr, 8)
        \o BincodeStr(TimestampText(r.timestamp)) \o BincodeEvt(r.message)

\* bincode::deserialize::<T>(v) for the event enum T: reads the u32 variant
\* index at the start of v and allows trailing bytes; None on failure.
BincodeDecodeEvt(v) ==
    IF Len(v) < 4 THEN None
    ELSE LET i == from_le_bytes(SubSeq(v, 1, 4))
         IN IF i < Len(EvtVariants) THEN Some(EvtVariants[i + 1]) ELSE None

\* The element type of the vectors handed to NonEmptyVec: u8, of which the
\* values 1, 2 and 3.
Elems == {1, 2, 3}

Vecs == UNION {[1..n -> Elems] : n \in 0..MaxVec}

\* bincode of a Vec<u8>, and so of a NonEmptyVec<u8>, whose derived
\* Serialize writes the wrapped vector: u64 length, then the elements.
BincodeVec(v) == to_le_bytes(Len(v), 8) \o v

\* The derived Deserialize of NonEmptyVec<u8> over bincode: the wrapped
\* vector is read, and wrapped as it is.
NonEmptyVecDeserialize(bytes) ==
    IF Len(bytes) < 8 THEN Err("Decoding")
    ELSE LET n == from_le_bytes(SubSeq(bytes, 1, 8))
         IN IF Len(bytes) < 8 + n THEN Err("Decoding")
            ELSE Ok(SubSeq(bytes, 9, 8 + n))

\* ------------------------------------------------- the in-memory journal

\* MemoryAdapter::write::mk_key: the entity id bytes, then the sequence
\* number as 8 big-endian bytes.
mk_key(entity_id, sequence_nr) == entity_id \o to_be_bytes(sequence_nr)

\* Insert that keeps nothing but the entry inserted.
InsertAlone(store, k, v) == {[k |-> k, v |-> v]}

\* HashMap::insert: the entry for key k is created or replaced.
Insert(store, k, v) == {e \in store : e.k # k} \cup {[k |-> k, v |-> v]}

RECURSIVE MemWrite(_, _)
\* MemoryAdapter::write: the records are encoded and inserted one after the
\* other; the first record that cannot be encoded ends the call with an
\* error, the entries inserted before it stay.
MemWrite(store, batch) ==
    IF batch = <<>> THEN [storage |-> store, result |-> "Ok"]
    ELSE LET value == Head(batch)
             key == mk_key(value.entity_id, value.seq_nr)
         IN IF ~Serializable(value.message)
            THEN [storage |-> store, result |-> "InvalidConfiguration"]
            ELSE MemWrite(Insert(store, key, BincodeRecord(value)), Tail(batch))

\* The filter of MemoryAdapter::read_highest_sequence_number.
HighestMatches(k, entity_id) ==
    Len(k) = Len(entity_id) + 8 \/ starts_with(k, entity_id)

SetMax(S) == CHOOSE m \in S : \A x \in S : x <= m

\* MemoryAdapter::read_highest_sequence_number.
MemHighest(store, entity_id) ==
    LET nrs == {from_be_bytes(SeqNrBytes(e.k)) :
                    e \in {x \in store : HighestMatches(x.k, entity_id)}}
    IN IF nrs = {} THEN None ELSE Some(SetMax(nrs))

\* The filter of MemoryAdapter::replay.
ReplayMatches(k, entity_id, from, to) ==
    /\ starts_with(k, entity_id)
    /\ LexLeq(mk_key(entity_id, from), k)
    /\ LexLeq(k, mk_key(entity_id, to))

RECURSIVE DecodeAll(_, _, _)
\* The filter_map of MemoryAdapter::replay over entries in iteration order:
\* an entry whose value does not decode is dropped.
DecodeAll(entries, entity_id, now) ==
    IF entries = <<>> THEN <<>>
    ELSE LET e == Head(entries)
             msg == BincodeDecodeEvt(e.v)
             rest == DecodeAll(Tail(entries), entity_id, now)
         IN IF msg = None THEN rest
            ELSE <<RecordEvent(entity_id, from_be_bytes(SeqNrBytes(e.k)),
                               Unwrap(msg), now)>> \o rest

\* MemoryAdapter::replay: the streams it may return.  The journal is a
\* HashMap, whose iteration order is unspecified: every order of the
\* matching entries is possible.
MemReplay(store, entity_id, from, to, max, now) ==
    LET hits == {e \in store : ReplayMatches(e.k, entity_id, from, to)}
    IN {Take(DecodeAll(p, entity_id, now), max) : p \in Perms(hits)}

\* ------------------------------------------------- the relational journal

\* PostgresAdapter::write: one transaction per batch.  fault is the
\* infrastructure failure met by this call ("none" when there is none): a
\* failed connection checkout, or a failed statement or commit, after which
\* the transaction is dropped and rolled back.  An event that cannot be
\* serialised makes serde_json::to_value(..).unwrap() panic.
PgWrite(table, batch, fault) ==
    IF fault # "none" THEN [events |-> table, result |-> fault]
    ELSE IF \E i \in 1..Len(batch) : ~Serializable(batch[i].message)
    THEN [events |-> table, result |-> "panic"]
    ELSE [events |-> table \o batch, result |-> "Ok"]

\* PostgresAdapter::read_highest_sequence_number: the outcomes of the call.
\* The checkout of a connection may fail, and so may the query.  Where the
\* query runs, the row of SELECT MAX(seq_nr) has one column, named max, so
\* try_get("seq_nr") fails and unwrap panics, whatever the table holds.
PgHighest(table, entity_id) ==
    {Err("ConnectionRetrievalError"), Err("StorageError"), Err("panic")}

\* PostgresAdapter::replay: the outcomes of the call.  The checkout of a
\* connection may fail.  The bounds and the limit are bound as text:
\* against bigint columns the query is refused and the call returns
\* StorageError.  Where the query runs, its rows carry the payload column
\* only, try_get("entity_id") fails for each row and filter_map drops it:
\* the stream is empty.
PgReplay(table, entity_id, from, to, max) ==
    {Err("ConnectionRetrievalError"), Err("StorageError"), Ok(<<>>)}

\* --------------------------------------------------------------- recovery

RECURSIVE FoldApply(_, _)
\* The fold of Event::apply over a list of events from state st; None as
\* soon as one event yields no state.
FoldApply(st, evs) ==
    IF evs = <<>> THEN Some(st)
    ELSE LET next == apply(Head(evs), st)
         IN IF next = None THEN None ELSE FoldApply(Unwrap(next), Tail(evs))

RECURSIVE FoldPartial(_, _)
\* The fold of Event::apply as far as it goes: the state reached by the
\* events before the first one that yields no state.
FoldPartial(st, evs) ==
    IF evs = <<>> THEN st
    ELSE LET next == apply(Head(evs), st)
         IN IF next = None THEN st ELSE FoldPartial(Unwrap(next), Tail(evs))

Messages(records) == [i \in 1..Len(records) |-> records[i].message]

\* Handler<GetState> for Init over the in-memory journal: the replies it
\* may give.  apply(..).unwrap() panics on an event that yields no state.
MemGetState(store, entity_id, now) ==
    LET highest_seq_nr == MemHighest(store, entity_id)
    IN IF highest_seq_nr = None
       THEN {[kind |-> "InvalidCommand", state |-> None]}
       ELSE {LET st == FoldApply(DefaultState, Messages(rs))
             IN IF st = None THEN [kind |-> "panic", state |-> None]
                ELSE [kind |-> "Ok", state |-> Unwrap(st)] :
                rs \in MemReplay(store, entity_id, 0, Unwrap(highest_seq_nr),
                                 Unwrap(highest_seq_nr) + BUFFER_SIZE, now)}

\* Handler<GetState> for Init over the relational journal: the replies it
\* may give.  A failed call ends the handler with its error.
PgGetState(table, entity_id) ==
    UNION {IF ~highest_seq_nr.ok
           THEN {[kind |-> highest_seq_nr.v, state |-> None]}
           ELSE IF highest_seq_nr.v = None
           THEN {[kind |-> "InvalidCommand", state |-> None]}
           ELSE {IF ~r.ok THEN [kind |-> r.v, state |-> None]
                 ELSE LET st == FoldApply(DefaultState, Messages(r.v))
                      IN IF st = None THEN [kind |-> "panic", state |-> None]
                         ELSE [kind |-> "Ok", state |-> Unwrap(st)] :
                    r \in PgReplay(table, entity_id, 0,
                                   Unwrap(highest_seq_nr.v),
                                   Unwrap(highest_seq_nr.v) + BUFFER_SIZE)} :
              highest_seq_nr \in PgHighest(table, entity_id)}

\* ------------------------------------------------------------------ state

VARIABLES
    backend,       \* which Adapter the engine was started with
    storage,       \* MemoryAdapter.storage: a set of entries [k, v]
    events,        \* the rows of the relational table events, in insert order
    topic,         \* the records of the command topic, in offset order
    position,      \* how many records of the topic the consumer has fetched
    committed,     \* how many records of the topic the committed offset covers
    committing,    \* the offset commits the consumer has queued for the broker
    addr,          \* Aggregate.addr: the entity ids that have a processor
    handle,        \* Aggregate.addr: the processor registered for each entity
                   \* id, as the number of its Supervisor::start; 0 for none
    state,         \* Inner.state of each processor
    seq_nr,        \* Inner.seq_nr of each processor
    dpc,           \* where the dispatcher is: "idle", or "loop" while the
                   \* future of a cycle runs
    scheduled,     \* the Dequeue messages waiting in the dispatcher's mailbox
    messages,      \* the chunk of the running cycle, as topic offsets
    result,        \* the results collected by the running cycle
    inflight,      \* the Process message in the hands of a processor, or NoMsg
    reply,         \* the answer to the request of the engine's caller that
                   \* the last step served, or NoReply
    resumes,       \* how often the consumer resumed from the committed offset
    produced,      \* history: the events of the commands each processor completed
    startedEmpty,  \* history: the processor was created over an empty journal
    passed,        \* history: validate, directive, the journal write and
                   \* apply succeeded for every command of the processor
    emitted,       \* history: the events of the commands of each processor
                   \* that were journaled and folded without error
    terminal,      \* history: the offsets of the records rejected by
                   \* validate in a cycle whose failures were all
                   \* Validation errors and which handed its commit to the
                   \* consumer
    origin,        \* history: for each record put in the journal, the topic
                   \* offset of the command it came from
    failed,        \* history: the offsets whose last processing in this run
                   \* ended with a storage or connection error
    starts,        \* history: the entity id of each processor started in
                   \* this run, in the order of the Supervisor::start calls
    outcome,       \* history: for each result a cycle collected, the topic
                   \* offset of the record and the result
    wrote,         \* history: the highest sequence number the processor of
                   \* each entity has put in the journal; 0 for none
    ended,         \* history: how the handler of the last cycle ended, "Ok",
                   \* "Kafka" or "InvalidKey"; "none" while a cycle runs
                   \* and before the first
    nev,           \* a NonEmptyVec in the hands of user code: the vector it
                   \* is made from, how it was made, the result, its items
    mailbox,       \* the messages that wait at the processor under study
    tasks,         \* the futures its handlers returned, in spawn order
    state_lock,    \* Inner.state's mutex: the task that holds it, or 0
    seq_nr_lock,   \* Inner.seq_nr's mutex: the task that holds it, or 0
    futures,       \* the futures spawned on Init's context, in spawn order
    init_seq_nr,   \* Init.seq_nr
    init_seq_nr_lock, \* Init.seq_nr's mutex: the future that holds it, or 0
    batch,         \* Init.batch: the delivery handles in the buffer
    batch_lock,    \* Init.batch's mutex: the future that holds it, or 0
    queue,         \* the records the producer has accepted and not yet
                   \* reported on
    sent,          \* history: for each record handed to this Init's producer,
                   \* in order, its number and whether it was accepted
    awaited        \* history: the delivery handles a drain has awaited

vars == <<backend, storage, events, topic, position, committed, committing,
          queue, addr, handle,
          state, seq_nr, dpc, scheduled, messages, result, inflight, reply,
          resumes, produced, startedEmpty, passed, emitted, terminal, origin,
          failed, starts, outcome, wrote, ended, nev,
          mailbox, tasks, state_lock, seq_nr_lock, futures, init_seq_nr,
          init_seq_nr_lock, batch, batch_lock, sent, awaited>>

journal == <<backend, storage, events>>
broker == <<topic, position, committed, committing>>
processors == <<addr, handle, state, seq_nr>>
processed == <<produced, startedEmpty, passed, emitted, origin, failed, starts,
               outcome, wrote>>
history == <<processed, terminal>>
inner == <<mailbox, tasks, state_lock, seq_nr_lock>>
ingress == <<futures, init_seq_nr, init_seq_nr_lock, batch, batch_lock, queue,
             sent, awaited>>
aside == <<nev, inner, ingress>>
pipeline == <<journal, broker, processors, dpc, scheduled, messages, result, inflight,
              reply, resumes, history, ended>>

\* The readings of Utc::now().  Timestamps are stored and never read by the
\* pipeline, so one reading suffices.
Times == {1}

\* The commands submitted to the engines that produce to the command
\* topic, as <<entity id, command>>: for
\* entity "a" a command of one event, one of two events, one rejected by
\* validate, one that validate accepts only after another command, one
\* whose second event cannot be serialised, one whose second event cannot
\* be applied, one whose effects hook fails and two whose directive
\* returns an error; for entity "b" a command of one event.
Submitted ==
    {<<(<<97>>), "one">>, <<(<<97>>), "two">>, <<(<<97>>), "invalid">>,
     <<(<<97>>), "second">>,
     <<(<<97>>), "unenc">>, <<(<<97>>), "noapply">>, <<(<<97>>), "fx">>,
     <<(<<97>>), "nodir">>, <<(<<97>>), "nodirst">>,
     <<(<<98>>), "one">>}

\* The records other producers put on the command topic, as <<key,
\* payload>>: one without key, one whose key is not UTF-8, one whose
\* payload is not the JSON of a command record, one without payload.
Foreign ==
    {<<None, Some("one")>>, <<Some(<<255>>), Some("one")>>,
     <<Some(<<97>>), Some("garbage")>>, <<Some(<<97>>), None>>}

\* The records of the submitted commands as a producer delivers them to the
\* command topic, as <<key, payload>>.
Delivered == {<<Some(c[1]), Some(c[2])>> : c \in Submitted}

\* ctx.notify(Dequeue): one more Dequeue message in the mailbox.
notify(n) == n + 1

\* schedule_next with the next cycle scheduled only after a cycle that
\* ended without error.
schedule_nextOkOnly(ending, n) == IF ending = "Ok" THEN notify(n) ELSE n

\* The closure run when the future of a cycle completes: it ignores how the
\* cycle ended ("Ok" or the name of the error) and notifies the dispatcher
\* once.
schedule_next(ending, n) == notify(n)

\* No Process message is being handled.
NoMsg == [phase |-> "none", entity_id |-> <<>>, to |-> 0, cmd |-> "",
          records |-> <<>>, offset |-> 0, seq0 |-> 0]

\* The last step served no request.
NoReply == [request |-> "none", entity_id |-> <<>>, kind |-> "none",
            state |-> None]

Backends == {"memory", "postgres"}

\* The sequence numbers of the records the journal holds for an entity, one
\* element per record.
JournalSeqNrs(entity_id) ==
    IF backend = "memory"
    THEN LET ks == {e.k : e \in {x \in storage :
                        /\ Len(x.k) = Len(entity_id) + 8
                        /\ starts_with(x.k, entity_id)}}
         IN [nr \in {from_be_bytes(SeqNrBytes(k)) : k \in ks} |-> 1]
    ELSE LET is == {i \in 1..Len(events) : events[i].entity_id = entity_id}
         IN [nr \in {events[i].seq_nr : i \in is} |->
                Cardinality({i \in is : events[i].seq_nr = nr})]

\* Inner::new: the fields of a new processor.
InnerNew == [state |-> DefaultState, seq_nr |-> 0]

\* The records the journal holds for an entity.
JournalRecords(entity_id) ==
    IF backend = "memory"
    THEN {e \in storage : /\ Len(e.k) = Len(entity_id) + 8
                          /\ starts_with(e.k, entity_id)}
    ELSE {events[i] : i \in {j \in 1..Len(events) :
                                events[j].entity_id = entity_id}}

\* Adapter::read_highest_sequence_number of the journal in use: the
\* outcomes of the call.
read_highest_sequence_number(entity_id) ==
    IF backend = "memory" THEN {Ok(MemHighest(storage, entity_id))}
    ELSE PgHighest(events, entity_id)

\* Adapter::replay of the journal in use: the outcomes of the call.
replay(entity_id, from, to, max, now) ==
    IF backend = "memory"
    THEN {Ok(rs) : rs \in MemReplay(storage, entity_id, from, to, max, now)}
    ELSE PgReplay(events, entity_id, from, to, max)

\* Handler<GetState> for Init over the journal in use: the replies.
Recoveries(entity_id, now) ==
    IF backend = "memory" THEN MemGetState(storage, entity_id, now)
    ELSE PgGetState(events, entity_id)

\* No NonEmptyVec has been made from the vector vec yet.
NoVec(vec) == [input |-> vec, how |-> "none", made |-> Err(<<>>), items |-> None]

\* The engine after Engine::start.
InitPipeline ==
    /\ backend \in Backends
    /\ storage = {}
    /\ events = <<>>
    /\ topic = <<>>
    /\ position = 0
    /\ committed = 0
    /\ committing = <<>>
    /\ addr = {}
    /\ handle = [e \in Entities |-> 0]
    /\ state = [e \in Entities |-> InnerNew.state]
    /\ seq_nr = [e \in Entities |-> InnerNew.seq_nr]
    /\ dpc = "idle"
    /\ scheduled = notify(0)
    /\ messages = <<>>
    /\ result = <<>>
    /\ inflight = NoMsg
    /\ reply = NoReply
    /\ resumes = 0
    /\ produced = [e \in Entities |-> <<>>]
    /\ startedEmpty = [e \in Entities |-> TRUE]
    /\ passed = [e \in Entities |-> TRUE]
    /\ emitted = [e \in Entities |-> <<>>]
    /\ terminal = {}
    /\ origin = {}
    /\ failed = {}
    /\ starts = <<>>
    /\ outcome = {}
    /\ wrote = [e \in Entities |-> 0]
    /\ ended = "none"

\* No message waits at the processor under study and no future runs.
InitInner ==
    /\ mailbox = <<>>
    /\ tasks = <<>>
    /\ state_lock = 0
    /\ seq_nr_lock = 0

\* Init::empty, with no command submitted yet.
InitIngress ==
    /\ futures = <<>>
    /\ init_seq_nr = 0
    /\ init_seq_nr_lock = 0
    /\ batch = <<>>
    /\ batch_lock = 0
    /\ queue = <<>>
    /\ sent = <<>>
    /\ awaited = {}

Init ==
    /\ InitPipeline
    /\ nev = NoVec(<<>>)
    /\ InitInner
    /\ InitIngress

\* ------------------------------------------------------ mutexes and handles

\* A mutex that lets every task in.
MutexFreeAlways(holder) == TRUE

\* futures::lock::Mutex::lock().await completes when no task holds the
\* mutex.
MutexFree(holder) == holder = 0

\* The guards kept when the future ends.
ReleaseNot(holder, t) == holder

\* The locks a task gives back when its future ends and the guards drop.
Release(holder, t) == IF holder = t THEN 0 ELSE holder

\* What becomes of a submitted command: its record is accepted by the
\* producer, refused by the producer (its queue is full), or the command
\* cannot be serialised.
Fates == {"accept", "refuse", "unenc"}

\* The counter left as it was when the producer refused the record.
IncrementOnAccept(n, accepted) == IF accepted THEN n + 1 ELSE n

\* `*seq_nr += 1`, whatever send_result returned.
Increment(n, accepted) == n + 1

\* Vec::push that drops the handle.
pushNothing(vec, value) == vec

\* Vec::push
push(vec, value) == Append(vec, value)

\* The DeliveryFuture of the record stamped n.
DeliveryFuture(n) == [stamp |-> n]

\* ---------------------------------------------------------------- ingress

\* The producer delivers the oldest record of its queue to the command
\* topic and reports on it: the delivery handle of the record is then
\* ready.
Deliver ==
    /\ queue # <<>>
    /\ queue' = Tail(queue)
    /\ topic' = Append(topic, [key |-> Head(queue).key,
                               payload |-> Head(queue).payload])
    /\ reply' = NoReply
    /\ UNCHANGED <<nev, inner, futures, init_seq_nr, init_seq_nr_lock, batch,
                   batch_lock, sent, awaited>>
    /\ UNCHANGED <<journal, position, committed, committing, processors, dpc,
                   scheduled, messages, result, inflight, resumes, history,
                   ended>>

\* The future of a handler or of a tick of the interval, as spawned.
NewFuture(kind, msg, fate) ==
    [kind |-> kind, msg |-> msg, fate |-> fate, pc |-> "spawned",
     stamp |-> -1, result |-> "none"]

\* A tick of run_interval: the future of a drain is spawned.
Tick ==
    /\ Cardinality({j \in 1..Len(futures) : futures[j].kind = "drain"})
          < MaxDrains
    /\ futures' = Append(futures, NewFuture("drain", <<>>, "none"))
    /\ UNCHANGED <<pipeline, nev, inner, init_seq_nr, init_seq_nr_lock,
                   batch, batch_lock, queue, sent, awaited>>

\* The drain gets the lock of batch; the guard lives as long as the for
\* loop over batch.drain(..).
DrainLock(j) ==
    /\ futures[j].kind = "drain"
    /\ futures[j].pc = "spawned"
    /\ MutexFree(batch_lock)
    /\ batch_lock' = j
    /\ futures' = [futures EXCEPT ![j].pc = "pass"]
    /\ UNCHANGED <<pipeline, nev, inner, init_seq_nr, init_seq_nr_lock,
                   batch, queue, sent, awaited>>

\* DrainAwait that takes the handle out of the buffer and does not await
\* it.
DrainAwaitNot(j) ==
    /\ futures[j].pc = "pass"
    /\ batch # <<>>
    /\ batch' = Tail(batch)
    /\ UNCHANGED <<pipeline, nev, inner, init_seq_nr, init_seq_nr_lock,
                   batch_lock, futures, queue, sent, awaited>>

\* The delivery handle is ready: the producer has reported on its record.
Ready(h) == \A i \in 1..Len(queue) : queue[i].stamp # h.stamp

\* One turn of the loop: the next handle is taken out of the buffer and
\* awaited, which ends when the producer has reported on the record; the
\* outcome is ignored.
DrainAwait(j) ==
    /\ futures[j].pc = "pass"
    /\ batch # <<>>
    /\ Ready(Head(batch))
    /\ awaited' = awaited \cup {[handle |-> Head(batch), by |-> j]}
    /\ batch' = Tail(batch)
    /\ UNCHANGED <<pipeline, nev, inner, init_seq_nr, init_seq_nr_lock,
                   batch_lock, futures, queue, sent>>

\* The loop is over: the guard drops, and batch.lock().await.clear() runs
\* in the same poll.  The futures of Init run on the one thread of its
\* arbiter and give way only where a poll returns Pending; lock() of a
\* mutex that is free completes at once, so no push comes between the end
\* of the loop and the clear.
DrainEnd(j) ==
    /\ futures[j].pc = "pass"
    /\ batch = <<>>
    /\ batch' = <<>>
    /\ batch_lock' = Release(batch_lock, j)
    /\ futures' = [futures EXCEPT ![j].pc = "done"]
    /\ UNCHANGED <<pipeline, nev, inner, init_seq_nr, init_seq_nr_lock,
                   queue, sent, awaited>>

\* A producer other than the Init of this engine delivers a record to the
\* command topic: a foreign record, or the record of a command that another
\* instance of the engine, or an earlier run of this one, was handed.
Produce(key, payload) ==
    /\ Len(topic) + Len(queue) < MaxTopic
    /\ topic' = Append(topic, [key |-> key, payload |-> payload])
    /\ reply' = NoReply
    /\ UNCHANGED aside
    /\ UNCHANGED <<journal, position, committed, committing, processors, dpc,
                   scheduled, messages, result, inflight, resumes, history,
                   ended>>

\* ------------------------------------------------------------- dispatcher

\* An item of the consumer's stream is Ok(record) or Err(KafkaError): in a
\* chunk a record stands as its offset, an error as ErrItem.
ErrItem == 0

\* The chunk of the n records that follow offset from, with an error of
\* the consumer as its item number at when at > 0.
Chunk(from, n, at) ==
    IF at = 0
    THEN [i \in 1..n |-> from + i]
    ELSE [i \in 1..(n + 1) |-> IF i < at THEN from + i
                               ELSE IF i = at THEN ErrItem
                               ELSE from + i - 1]

\* Handler<Dequeue> for Aggregate, from the start to its first await: the
\* actor takes a Dequeue message out of its mailbox and the future of the
\* cycle subscribes, as it does in every cycle.  When the consumer takes
\* the subscription the future waits at chunks.next() until an item is
\* ready; when it refuses, the future ends with Error::Kafka in the same
\* poll and the next cycle is scheduled.
Subscribe(subscribed) ==
    /\ scheduled >= 1
    /\ IF subscribed
       THEN /\ scheduled' = scheduled - 1
            /\ dpc' = "loop"
            /\ ended' = "none"
       ELSE /\ scheduled' = schedule_next("Kafka", scheduled - 1)
            /\ dpc' = "idle"
            /\ ended' = "Kafka"
    /\ messages' = <<>>
    /\ result' = <<>>
    /\ reply' = NoReply
    /\ UNCHANGED aside
    /\ UNCHANGED <<journal, broker, processors, inflight, resumes, history>>

\* The future of the cycle waits at chunks.next(): it has subscribed and
\* has no chunk yet.
Waits == dpc = "loop" /\ messages = <<>>

\* Handler<Dequeue> for Aggregate, from the return of chunks.next() to the
\* loop over the chunk.  The handler never seeks: the consumer goes on
\* from its position, or, when the subscription made the group
\* rebalance, from the offset the broker holds as committed; the commits
\* still queued at a rebalance belong to the assignment that ended, and the
\* broker takes none of them.  ready_chunks hands over the items of the
\* consumer's stream that are ready, at least one and at most CHUNK_SIZE:
\* the n records that follow the position and, when at > 0, an error of
\* the consumer as the item number at of the chunk.
Dequeue(from, n, at) ==
    /\ Waits
    /\ from \in {position, committed}
    /\ from < position => resumes < MaxResumes
    /\ resumes' = IF from < position THEN resumes + 1 ELSE resumes
    /\ n >= 0
    /\ at <= n + 1
    /\ n + (IF at > 0 THEN 1 ELSE 0) >= 1
    /\ n + (IF at > 0 THEN 1 ELSE 0) <= CHUNK_SIZE
    /\ n <= Len(topic) - from
    /\ messages' = Chunk(from, n, at)
    /\ position' = from + n
    /\ result' = <<>>
    /\ committing' = IF from < position THEN <<>> ELSE committing
    /\ reply' = NoReply
    /\ UNCHANGED aside
    /\ UNCHANGED <<journal, topic, committed, processors, dpc, scheduled,
                   inflight, history, ended>>

\* The key of a record as the loop reads it: the entity id, or InvalidKey
\* for a record without key or with a key that is not UTF-8.
KeyOf(msg) ==
    IF msg.key = None THEN Err("InvalidKey") ELSE from_utf8(Unwrap(msg.key))

\* HashMap::contains_key that finds no key.
contains_keyNever(map, key) == FALSE

\* HashMap::contains_key of the registry, whose keys are map.
contains_key(map, key) == key \in map

\* One turn of the loop over the chunk, up to the send.  An item that is
\* an error of the consumer ends the handler with `?` and Error::Kafka, a
\* record whose key cannot be read ends it with Error::InvalidKey: the
\* rest of the chunk is left, nothing is committed and the next cycle is
\* scheduled.  Otherwise the
\* processor of the key is looked up, created and registered when there is
\* none.  process answers Ok for a record without payload and sends
\* nothing; it returns InvalidCommand for a payload that does not decode;
\* else it sends the command to the processor.
Dispatch ==
    /\ dpc = "loop"
    /\ inflight = NoMsg
    /\ Len(result) < Len(messages)
    /\ LET offset == messages[Len(result) + 1]
           msg == topic[offset]
           read == IF offset = ErrItem THEN Err("Kafka") ELSE KeyOf(msg)
           key == read.v
       IN IF ~read.ok
          THEN /\ dpc' = "idle"
               /\ ended' = read.v
               /\ scheduled' = schedule_next(read.v, scheduled)
               /\ messages' = <<>>
               /\ result' = <<>>
               /\ UNCHANGED <<processors, inflight, history>>
          ELSE /\ UNCHANGED <<origin, failed, ended, terminal>>
               /\ IF ~contains_key(addr, key)
                  THEN /\ addr' = addr \cup {key}
                       /\ starts' = Append(starts, key)
                       /\ handle' = [handle EXCEPT ![key] = Len(starts')]
                       /\ state' = [state EXCEPT ![key] = InnerNew.state]
                       /\ seq_nr' = [seq_nr EXCEPT ![key] = InnerNew.seq_nr]
                       /\ produced' = [produced EXCEPT ![key] = <<>>]
                       /\ startedEmpty' = [startedEmpty EXCEPT ![key] =
                                              DOMAIN JournalSeqNrs(key) = {}]
                       /\ passed' = [passed EXCEPT ![key] = TRUE]
                       /\ emitted' = [emitted EXCEPT ![key] = <<>>]
                       /\ wrote' = [wrote EXCEPT ![key] = 0]
                  ELSE UNCHANGED <<processors, produced, startedEmpty, passed,
                                   emitted, starts, wrote>>
               /\ IF msg.payload = None
                  THEN /\ result' = Append(result, "Ok")
                       /\ outcome' = outcome \cup
                              {[offset |-> offset, result |-> "Ok"]}
                       /\ UNCHANGED inflight
                  ELSE LET payload == from_slice(Unwrap(msg.payload))
                       IN IF payload.ok
                          THEN /\ inflight' =
                                      [phase |-> "sent", entity_id |-> key,
                                       to |-> handle'[key],
                                       cmd |-> payload.v, records |-> <<>>,
                                       offset |-> offset,
                                       seq0 |-> seq_nr'[key]]
                               /\ UNCHANGED <<result, outcome>>
                          ELSE /\ result' = Append(result, payload.v)
                               /\ outcome' = outcome \cup
                                      {[offset |-> offset,
                                        result |-> payload.v]}
                               /\ UNCHANGED inflight
               /\ UNCHANGED <<dpc, scheduled, messages>>
    /\ reply' = NoReply
    /\ UNCHANGED aside
    /\ UNCHANGED <<journal, broker, resumes>>

\* is_allowed with only StorageError held back.
is_allowedStorageOnly(rs) ==
    \A i \in 1..Len(rs) : rs[i] # "StorageError"

\* is_allowed that lets a chunk through only when every result is Ok.
is_allowedOkOnly(rs) ==
    \A i \in 1..Len(rs) : rs[i] = "Ok"

\* The filter of the commit decision: no result is a storage or connection
\* error.
is_allowed(rs) ==
    \A i \in 1..Len(rs) :
        rs[i] \notin {"StorageError", "ConnectionError", "ConnectionRetrievalError"}

\* terminal once the cycle has ended with the results it holds, the
\* consumer having accepted the call of commit_message or not: when no
\* result is an error other than Validation and the commit was handed
\* over, the records that validate rejected are added.
Rejected(accepted) ==
    IF accepted /\ \A i \in 1..Len(result) : result[i] \in {"Ok", "Validation"}
    THEN terminal \cup {messages[i] : i \in {j \in 1..Len(result) :
                                               result[j] = "Validation"}}
    ELSE terminal

\* Commit taken as soon as one result is in.
CommitEarly(accepted) ==
    /\ dpc = "loop"
    /\ inflight = NoMsg
    /\ Len(result) >= 1
    /\ IF is_allowed(result) /\ accepted
       THEN /\ Len(committing) < MaxCommitting
            /\ committing' = Append(committing, messages[Len(messages)])
       ELSE UNCHANGED committing
    /\ ~is_allowed(result) => accepted
    /\ dpc' = "idle"
    /\ ended' = IF accepted THEN "Ok" ELSE "Kafka"
    /\ scheduled' = schedule_next(ended', scheduled)
    /\ messages' = <<>>
    /\ result' = <<>>
    /\ reply' = NoReply
    /\ UNCHANGED aside
    /\ terminal' = Rejected(accepted)
    /\ UNCHANGED <<journal, topic, position, committed, processors, inflight,
                   resumes, processed>>

\* The end of the cycle.  When is_allowed, commit_message is called with
\* the last record of the chunk: CommitMode::Async, so an accepted commit
\* is queued for the broker; a commit that is refused ends the handler
\* with the broker error.  When not is_allowed nothing is asked of the
\* consumer.  The next cycle is scheduled in every case.
Commit(accepted) ==
    /\ dpc = "loop"
    /\ messages # <<>>
    /\ inflight = NoMsg
    /\ Len(result) = Len(messages)
    /\ IF is_allowed(result) /\ accepted
       THEN /\ Len(committing) < MaxCommitting
            /\ committing' = Append(committing, messages[Len(messages)])
       ELSE UNCHANGED committing
    /\ ~is_allowed(result) => accepted
    /\ dpc' = "idle"
    /\ ended' = IF accepted THEN "Ok" ELSE "Kafka"
    /\ scheduled' = schedule_next(ended', scheduled)
    /\ messages' = <<>>
    /\ result' = <<>>
    /\ reply' = NoReply
    /\ UNCHANGED aside
    /\ terminal' = Rejected(accepted)
    /\ UNCHANGED <<journal, topic, position, committed, processors, inflight,
                   resumes, processed>>

\* The consumer's oldest queued commit reaches the broker, which stores
\* the offset.
OffsetCommit ==
    /\ committing # <<>>
    /\ committing' = Tail(committing)
    /\ committed' = Head(committing)
    /\ reply' = NoReply
    /\ UNCHANGED aside
    /\ UNCHANGED <<journal, topic, position, processors, dpc, scheduled,
                   messages, result, inflight, resumes, history, ended>>

\* -------------------------------------------------------------- processor

\* ProcessBegin with the counter incremented before validate is consulted.
ProcessBeginCountFirst(st, nr, entity_id, cmd, now) ==
    LET evs == directive(cmd, st)
    IN IF ~validate(cmd, st)
       THEN [result |-> "Validation",
             seq_nr |-> IF evs.ok THEN nr + Len(evs.v) ELSE nr + 1,
             records |-> <<>>]
       ELSE IF ~evs.ok
       THEN [result |-> evs.v, seq_nr |-> nr, records |-> <<>>]
       ELSE [result |-> "write",
             seq_nr |-> nr + Len(evs.v),
             records |-> [i \in 1..Len(evs.v) |->
                             RecordEvent(entity_id, nr + i, evs.v[i], now)]]

\* ProcessBegin with the counter incremented once before directive is
\* consulted.
ProcessBeginNumberFirst(st, nr, entity_id, cmd, now) ==
    IF ~validate(cmd, st)
    THEN [result |-> "Validation", seq_nr |-> nr, records |-> <<>>]
    ELSE LET evs == directive(cmd, st)
         IN IF ~evs.ok
            THEN [result |-> evs.v, seq_nr |-> nr + 1, records |-> <<>>]
            ELSE [result |-> "write",
                  seq_nr |-> nr + Len(evs.v),
                  records |-> [i \in 1..Len(evs.v) |->
                                  RecordEvent(entity_id, nr + i, evs.v[i], now)]]

\* ProcessBegin with the counter left as it was: the records are numbered
\* from a copy of it.
ProcessBeginCounterKept(st, nr, entity_id, cmd, now) ==
    IF ~validate(cmd, st)
    THEN [result |-> "Validation", seq_nr |-> nr, records |-> <<>>]
    ELSE LET evs == directive(cmd, st)
         IN IF ~evs.ok
            THEN [result |-> evs.v, seq_nr |-> nr, records |-> <<>>]
            ELSE [result |-> "write",
                  seq_nr |-> nr,
                  records |-> [i \in 1..Len(evs.v) |->
                                  RecordEvent(entity_id, nr + i, evs.v[i], now)]]

\* Handler<Process> for Inner, from the locks to the call of store.write:
\* validate, directive, then one record per event, the counter being
\* incremented for each.  result is "write" when the batch is ready, else
\* the error the handler returns.
ProcessBegin(st, nr, entity_id, cmd, now) ==
    IF ~validate(cmd, st)
    THEN [result |-> "Validation", seq_nr |-> nr, records |-> <<>>]
    ELSE LET evs == directive(cmd, st)
         IN IF ~evs.ok
            THEN [result |-> evs.v, seq_nr |-> nr, records |-> <<>>]
            ELSE [result |-> "write",
                  seq_nr |-> nr + Len(evs.v),
                  records |-> [i \in 1..Len(evs.v) |->
                                  RecordEvent(entity_id, nr + i, evs.v[i], now)]]

RECURSIVE Reverse(_)
Reverse(s) == IF s = <<>> THEN <<>> ELSE Reverse(Tail(s)) \o <<Head(s)>>

\* ProcessEnd with the events folded last to first.
ProcessEndReversed(st, cmd, evs, written) ==
    IF written # "Ok" THEN [state |-> st, result |-> written]
    ELSE LET new_state == FoldApply(st, Reverse(evs))
         IN IF new_state = None THEN [state |-> st, result |-> "Error"]
            ELSE IF ~effects(cmd, st, Unwrap(new_state))
            THEN [state |-> st, result |-> "InvalidState"]
            ELSE [state |-> Unwrap(new_state), result |-> "Ok"]

\* ProcessEnd with the fold assigned whatever store.write returned.
ProcessEndApplyAlways(st, cmd, evs, written) ==
    LET new_state == FoldApply(st, evs)
    IN IF new_state = None THEN [state |-> st, result |-> "Error"]
       ELSE IF written # "Ok"
       THEN [state |-> Unwrap(new_state), result |-> written]
       ELSE IF ~effects(cmd, st, Unwrap(new_state))
       THEN [state |-> st, result |-> "InvalidState"]
       ELSE [state |-> Unwrap(new_state), result |-> "Ok"]

\* ProcessEnd that keeps the state folded so far when an event cannot be
\* applied.
ProcessEndPartialFold(st, cmd, evs, written) ==
    IF written # "Ok" THEN [state |-> st, result |-> written]
    ELSE LET new_state == FoldApply(st, evs)
         IN IF new_state = None
            THEN [state |-> FoldPartial(st, evs), result |-> "Error"]
            ELSE IF ~effects(cmd, st, Unwrap(new_state))
            THEN [state |-> st, result |-> "InvalidState"]
            ELSE [state |-> Unwrap(new_state), result |-> "Ok"]

\* Handler<Process> for Inner, from the return of store.write to the end:
\* written is what store.write returned.  The events are folded over a copy
\* of the state; the effects hook runs before the new state is assigned.
ProcessEnd(st, cmd, evs, written) ==
    IF written # "Ok" THEN [state |-> st, result |-> written]
    ELSE LET new_state == FoldApply(st, evs)
         IN IF new_state = None THEN [state |-> st, result |-> "Error"]
            ELSE IF ~effects(cmd, st, Unwrap(new_state))
            THEN [state |-> st, result |-> "InvalidState"]
            ELSE [state |-> Unwrap(new_state), result |-> "Ok"]

\* What the dispatcher gets for a command it sent: the answer of the
\* handler, or, when the future of the handler panicked and its reply
\* channel was dropped, the mailbox error, which process turns into
\* InvalidCommand.
Answer(r) == IF r = "panic" THEN "InvalidCommand" ELSE r

\* failed once the processing of the record at offset has ended with res.
Failed(offset, res) ==
    IF ~is_allowed(<<res>>) THEN failed \cup {offset} ELSE failed \ {offset}

\* The processor takes the message: first half of the handler.
HandleBegin(now) ==
    /\ dpc = "loop"
    /\ inflight.phase = "sent"
    /\ LET id == inflight.entity_id
           b == ProcessBegin(state[id], seq_nr[id], id, inflight.cmd, now)
       IN /\ seq_nr' = [seq_nr EXCEPT ![id] = b.seq_nr]
          /\ IF b.result = "write"
             THEN /\ inflight' = [inflight EXCEPT !.phase = "write",
                                                  !.records = b.records]
                  /\ UNCHANGED <<result, passed, outcome, failed>>
             ELSE /\ inflight' = NoMsg
                  /\ result' = Append(result, b.result)
                  /\ outcome' = outcome \cup
                         {[offset |-> inflight.offset, result |-> b.result]}
                  /\ passed' = [passed EXCEPT ![id] = FALSE]
                  /\ failed' = Failed(inflight.offset, b.result)
    /\ reply' = NoReply
    /\ UNCHANGED aside
    /\ UNCHANGED <<journal, broker, addr, handle, state, dpc, scheduled,
                   messages, resumes, produced, startedEmpty, emitted,
                   terminal, origin, starts, wrote, ended>>

\* The engine stops: the actors and what they hold are gone, and with
\* them the producer, its queue and the commits the consumer had queued.
\* The journal handed to Engine::start, the topic and the offset the broker
\* holds as committed stay.
Down ==
    /\ dpc' = "idle"
    /\ scheduled' = notify(0)
    /\ addr' = {}
    /\ handle' = [e \in Entities |-> 0]
    /\ starts' = <<>>
    /\ wrote' = [e \in Entities |-> 0]
    /\ state' = [e \in Entities |-> InnerNew.state]
    /\ seq_nr' = [e \in Entities |-> InnerNew.seq_nr]
    /\ messages' = <<>>
    /\ result' = <<>>
    /\ inflight' = NoMsg
    /\ produced' = [e \in Entities |-> <<>>]
    /\ startedEmpty' = [e \in Entities |-> TRUE]
    /\ passed' = [e \in Entities |-> TRUE]
    /\ emitted' = [e \in Entities |-> <<>>]
    /\ failed' = {}
    /\ ended' = "none"
    /\ committing' = <<>>
    /\ futures' = <<>>
    /\ init_seq_nr' = 0
    /\ init_seq_nr_lock' = 0
    /\ batch' = <<>>
    /\ batch_lock' = 0
    /\ queue' = <<>>
    /\ sent' = <<>>
    /\ awaited' = {}
    /\ UNCHANGED <<backend, topic, committed, outcome, terminal>>

\* origin once the records put are in the journal: a record put replaces
\* what origin knew of its entity and sequence number when the journal
\* replaces the record, and is added when the journal adds a row.
Originate(put, replaces) ==
    {o \in origin : ~(replaces /\ \E r \in put :
                        r.entity_id = o.entity_id /\ r.seq_nr = o.seq_nr)}
        \cup {[entity_id |-> r.entity_id, seq_nr |-> r.seq_nr,
               offset |-> inflight.offset] : r \in put}

\* wrote once the records put are in the journal.
Wrote(put) ==
    [wrote EXCEPT ![inflight.entity_id] =
        IF put = {} THEN @ ELSE SetMax({@} \cup {r.seq_nr : r \in put})]

\* The end of the handler, store.write having returned w: the future ends
\* with the result of ProcessEnd, or panics, and the dispatcher gets its
\* answer.
Finish(w) ==
    LET id == inflight.entity_id
        evs == Messages(inflight.records)
        e == ProcessEnd(state[id], inflight.cmd, evs, w)
        folded == w = "Ok" /\ FoldApply(state[id], evs) # None
    IN /\ state' = [state EXCEPT ![id] = e.state]
       /\ result' = Append(result, Answer(e.result))
       /\ outcome' = outcome \cup
              {[offset |-> inflight.offset, result |-> Answer(e.result)]}
       /\ inflight' = NoMsg
       /\ produced' = [produced EXCEPT ![id] =
                          IF e.result = "Ok" THEN @ \o evs ELSE @]
       /\ passed' = [passed EXCEPT ![id] = @ /\ folded]
       /\ emitted' = [emitted EXCEPT ![id] = IF folded THEN @ \o evs ELSE @]
       /\ failed' = Failed(inflight.offset, Answer(e.result))
       /\ UNCHANGED <<backend, broker, addr, handle, seq_nr, dpc, scheduled,
                      messages, startedEmpty, starts, ended, terminal>>

\* The handler once store.write has returned w.  When the write succeeded
\* and the events fold to a new state, the handler awaits the effects
\* hook: the records are in the journal, the state is not assigned yet and
\* the dispatcher has no answer.  Otherwise the handler ends in this poll.
AfterWrite(w) ==
    LET id == inflight.entity_id
        evs == Messages(inflight.records)
    IN IF w = "Ok" /\ FoldApply(state[id], evs) # None
       THEN /\ inflight' = [inflight EXCEPT !.phase = "effects"]
            /\ UNCHANGED <<state, result, outcome, produced, passed, emitted,
                           failed>>
            /\ UNCHANGED <<backend, broker, addr, handle, seq_nr, dpc,
                           scheduled, messages, startedEmpty, starts, ended,
                           terminal>>
       ELSE Finish(w)

\* store.write of the in-memory journal returns.
HandleWriteMemory ==
    /\ dpc = "loop"
    /\ inflight.phase = "write"
    /\ backend = "memory"
    /\ LET w == MemWrite(storage, inflight.records)
           put == {r \in Range(inflight.records) :
                      [k |-> mk_key(r.entity_id, r.seq_nr),
                       v |-> BincodeRecord(r)] \in w.storage}
       IN /\ storage' = w.storage
          /\ origin' = Originate(put, TRUE)
          /\ wrote' = Wrote(put)
          /\ AfterWrite(w.result)
    /\ reply' = NoReply
    /\ UNCHANGED aside
    /\ UNCHANGED <<events, resumes>>

\* store.write of the relational journal returns, or panics: the panic
\* ends the future of the handler, whose guards drop; the processor and
\* the engine go on.
HandleWritePostgres(fault) ==
    /\ dpc = "loop"
    /\ inflight.phase = "write"
    /\ backend = "postgres"
    /\ LET w == PgWrite(events, inflight.records, fault)
           put == IF w.result = "Ok" THEN Range(inflight.records) ELSE {}
       IN /\ events' = w.events
          /\ origin' = Originate(put, FALSE)
          /\ wrote' = Wrote(put)
          /\ AfterWrite(w.result)
    /\ reply' = NoReply
    /\ UNCHANGED aside
    /\ UNCHANGED <<storage, resumes>>

\* The effects hook returns: the new state is assigned when it succeeded,
\* and the handler ends.
HandleEffects ==
    /\ dpc = "loop"
    /\ inflight.phase = "effects"
    /\ Finish("Ok")
    /\ reply' = NoReply
    /\ UNCHANGED aside
    /\ UNCHANGED <<storage, events, resumes, origin, wrote>>

\* ------------------------------------------------------- engine facade

\* Engine::state, served by Handler<GetState> for Init from the journal.
\* A reply of kind panic is that of a handler whose future panicked: the
\* caller gets the mailbox error, Init and the engine go on.
GetState(entity_id, now) ==
    /\ reply' \in {[request |-> "state", entity_id |-> entity_id] @@ r :
                      r \in Recoveries(entity_id, now)}
    /\ UNCHANGED <<journal, broker, processors, dpc, scheduled, messages,
                   result, inflight, resumes, history, ended, aside>>

\* The engine is stopped and started again over the same journal:
\* Engine::start builds a new Init, with its counter at 0 and an empty
\* buffer, and a new dispatcher with an empty registry; the consumer
\* resumes at the committed offset.
Restart ==
    /\ resumes < MaxResumes
    /\ resumes' = resumes + 1
    /\ Down
    /\ position' = committed
    /\ reply' = NoReply
    /\ UNCHANGED <<nev, inner>>
    /\ UNCHANGED <<storage, events, origin>>

\* ------------------------------------- the engine and a caller of state

\* The records delivered to the command topic while the answers of
\* Engine::state are studied, all of entity "a": a command of one event
\* and one whose effects hook fails.
DeliveredState ==
    {<<Some(<<97>>), Some("one")>>, <<Some(<<97>>), Some("fx")>>}

\* The dispatcher, the processors, the journal and the broker, with a
\* caller that asks for the state of any entity at any moment.  The
\* records of the topic are those a producer delivered; how Init hands a
\* submitted command to its producer is the matter of SpecIngress.
Next ==
    \/ \E r \in DeliveredState : Produce(r[1], r[2])
    \/ \E subscribed \in BOOLEAN : Subscribe(subscribed)
    \/ \E from \in 0..MaxTopic, n \in 0..MaxTopic, at \in 0..(MaxTopic + 1) :
           Dequeue(from, n, at)
    \/ Dispatch
    \/ \E now \in Times : HandleBegin(now)
    \/ HandleWriteMemory
    \/ \E fault \in {"none", "StorageError", "ConnectionRetrievalError"} :
           HandleWritePostgres(fault)
    \/ HandleEffects
    \/ \E accepted \in BOOLEAN : Commit(accepted)
    \/ OffsetCommit
    \/ \E id \in Entities, now \in Times : GetState(id, now)
    \/ Restart

Spec == Init /\ [][Next]_vars

\* ------------------------------------------------ the pipeline on its own

\* The dispatcher, the processors, the journal and the broker, whatever
\* producer the records of the topic come from.  GetState changes nothing
\* but the reply to its caller: every behaviour of Spec, seen on the topic,
\* the broker's offsets, the dispatcher, the processors and the journal,
\* is a behaviour of SpecPipeline.
NextPipeline ==
    \/ \E r \in Foreign \cup Delivered : Produce(r[1], r[2])
    \/ \E subscribed \in BOOLEAN : Subscribe(subscribed)
    \/ \E from \in 0..MaxTopic, n \in 0..MaxTopic, at \in 0..(MaxTopic + 1) :
           Dequeue(from, n, at)
    \/ Dispatch
    \/ \E now \in Times : HandleBegin(now)
    \/ HandleWriteMemory
    \/ \E fault \in {"none", "StorageError", "ConnectionRetrievalError"} :
           HandleWritePostgres(fault)
    \/ HandleEffects
    \/ \E accepted \in BOOLEAN : Commit(accepted)
    \/ OffsetCommit
    \/ Restart

SpecPipeline == Init /\ [][NextPipeline]_vars

\* ------------------------------------------- the pipeline left to itself

\* The commands submitted while the pipeline is watched for progress: for
\* each entity a command of one event, one of two events and one rejected
\* by validate.
SubmittedLive == Entities \X {"one", "two", "invalid"}

DeliveredLive == {<<Some(c[1]), Some(c[2])>> : c \in SubmittedLive}

\* The consumer hands the dispatcher the next chunk from its position.
DequeueNext == \E n \in 1..MaxTopic : Dequeue(position, n, 0)

\* The steps of a processor that has been sent a command; the journal
\* meets no failure.
Handle ==
    \/ \E now \in Times : HandleBegin(now)
    \/ HandleWriteMemory
    \/ HandleWritePostgres("none")
    \/ HandleEffects

\* The engine with no infrastructure failure: the producer accepts and
\* delivers every record, no journal write fails, every commit reaches
\* the broker, the engine is not stopped and the consumer group does not
\* rebalance.
NextLive ==
    \/ \E r \in Foreign \cup DeliveredLive : Produce(r[1], r[2])
    \/ Subscribe(TRUE)
    \/ DequeueNext
    \/ Dispatch
    \/ Handle
    \/ Commit(TRUE)
    \/ OffsetCommit

\* The actix arbiter runs every actor that has a message and every future
\* that can go on: the dispatcher takes a waiting Dequeue, the future of
\* its cycle gets the chunk when records are ready, its loop goes on, and
\* a processor handles what it was sent; the threads of the producer and
\* of the consumer deliver what is queued.
SpecLive ==
    /\ Init
    /\ [][NextLive]_vars
    /\ WF_vars(Subscribe(TRUE))
    /\ WF_vars(DequeueNext)
    /\ WF_vars(Dispatch)
    /\ WF_vars(Handle)
    /\ WF_vars(Commit(TRUE))
    /\ WF_vars(OffsetCommit)

\* ------------------------------------------------- NonEmptyVec in user code

\* User code makes a NonEmptyVec from a vector with NonEmptyVec::new.
New ==
    /\ nev.how = "none"
    /\ nev' = [nev EXCEPT !.how = "new", !.made = NonEmptyVecNew(nev.input)]
    /\ UNCHANGED <<pipeline, inner, ingress>>

\* User code makes a NonEmptyVec from one value with NonEmptyVec::one.
One(value) ==
    /\ nev.how = "none"
    /\ nev' = [nev EXCEPT !.how = "one", !.input = <<value>>,
                          !.made = Ok(NonEmptyVecOne(value))]
    /\ UNCHANGED <<pipeline, inner, ingress>>

\* User code reads a NonEmptyVec from the bytes of an encoded vector.
Deserialize ==
    /\ nev.how = "none"
    /\ nev' = [nev EXCEPT !.how = "deserialize",
                          !.made = NonEmptyVecDeserialize(BincodeVec(nev.input))]
    /\ UNCHANGED <<pipeline, inner, ingress>>

\* User code takes the items of the NonEmptyVec it holds.
Iterate ==
    /\ nev.how # "none"
    /\ nev.made.ok
    /\ nev.items = None
    /\ nev' = [nev EXCEPT !.items = Some(iter(into_vec(nev.made.v)))]
    /\ UNCHANGED <<pipeline, inner, ingress>>

InitNonEmptyVec ==
    /\ InitPipeline
    /\ backend = "memory"
    /\ nev \in {NoVec(vec) : vec \in Vecs}
    /\ InitInner
    /\ InitIngress

NextNonEmptyVec ==
    \/ New
    \/ \E value \in Elems : One(value)
    \/ Deserialize
    \/ Iterate

SpecNonEmptyVec == InitNonEmptyVec /\ [][NextNonEmptyVec]_vars

\* ------------------------------------------- one processor, several messages

\* The entity of the processor under study.
InnerId == <<97>>

\* The messages sent to the processor: Process with a command of one
\* event, of two events, rejected by validate, for which directive returns
\* an error, whose write fails, whose events cannot be applied or whose
\* effects hook fails, and GetState.
Pending ==
    {[kind |-> "Process", cmd |-> c] :
        c \in {"one", "two", "invalid", "nodir", "unenc", "noapply", "fx"}}
        \cup {[kind |-> "GetState", cmd |-> ""]}

NewTask(msg) == [msg |-> msg, pc |-> "spawned", records |-> <<>>,
                 result |-> "none", read |-> None]

\* Handler::handle of the processor: the actor takes the next message,
\* clones its Arcs and returns a future, which is spawned; the actor is
\* then free to take the next message.
InnerHandle ==
    /\ mailbox # <<>>
    /\ tasks' = Append(tasks, NewTask(Head(mailbox)))
    /\ mailbox' = Tail(mailbox)
    /\ UNCHANGED <<pipeline, nev, ingress, state_lock, seq_nr_lock>>

\* The future of a Process message gets the lock of state.
StateLock(t) ==
    /\ tasks[t].msg.kind = "Process"
    /\ tasks[t].pc = "spawned"
    /\ MutexFree(state_lock)
    /\ state_lock' = t
    /\ tasks' = [tasks EXCEPT ![t].pc = "state"]
    /\ UNCHANGED <<pipeline, nev, ingress, mailbox, seq_nr_lock>>

\* It gets the lock of seq_nr.
SeqNrLock(t) ==
    /\ tasks[t].pc = "state"
    /\ MutexFree(seq_nr_lock)
    /\ seq_nr_lock' = t
    /\ tasks' = [tasks EXCEPT ![t].pc = "locked"]
    /\ UNCHANGED <<pipeline, nev, ingress, mailbox, state_lock>>

\* It validates, derives the events and numbers the records, up to the
\* await of store.write; an error ends the future.
InnerBegin(t, now) ==
    /\ tasks[t].pc = "locked"
    /\ LET b == ProcessBegin(state[InnerId], seq_nr[InnerId], InnerId,
                             tasks[t].msg.cmd, now)
       IN /\ seq_nr' = [seq_nr EXCEPT ![InnerId] = b.seq_nr]
          /\ IF b.result = "write"
             THEN /\ tasks' = [tasks EXCEPT ![t].pc = "write",
                                            ![t].records = b.records]
                  /\ UNCHANGED <<state_lock, seq_nr_lock>>
             ELSE /\ tasks' = [tasks EXCEPT ![t].pc = "done",
                                            ![t].result = b.result]
                  /\ state_lock' = Release(state_lock, t)
                  /\ seq_nr_lock' = Release(seq_nr_lock, t)
    /\ UNCHANGED <<journal, broker, addr, handle, state, dpc, scheduled,
                   messages, result, inflight, reply, resumes, history, ended,
                   nev, ingress, mailbox>>

\* store.write returns.  When it succeeded and the events fold to a new
\* state, the future awaits the effects hook, the locks held and the state
\* not assigned yet; otherwise the future ends and the guards drop.
InnerWrite(t) ==
    /\ tasks[t].pc = "write"
    /\ LET w == MemWrite(storage, tasks[t].records)
           evs == Messages(tasks[t].records)
           e == ProcessEnd(state[InnerId], tasks[t].msg.cmd, evs, w.result)
       IN /\ storage' = w.storage
          /\ IF w.result = "Ok" /\ FoldApply(state[InnerId], evs) # None
             THEN /\ tasks' = [tasks EXCEPT ![t].pc = "effects"]
                  /\ UNCHANGED <<state, state_lock, seq_nr_lock>>
             ELSE /\ state' = [state EXCEPT ![InnerId] = e.state]
                  /\ tasks' = [tasks EXCEPT ![t].pc = "done",
                                            ![t].result = e.result]
                  /\ state_lock' = Release(state_lock, t)
                  /\ seq_nr_lock' = Release(seq_nr_lock, t)
    /\ UNCHANGED <<backend, events, broker, addr, handle, seq_nr, dpc,
                   scheduled, messages, result, inflight, reply, resumes,
                   history, ended, nev, ingress, mailbox>>

\* The effects hook returns: the new state is assigned when it succeeded,
\* the future ends and the guards drop.
InnerEffects(t) ==
    /\ tasks[t].pc = "effects"
    /\ LET e == ProcessEnd(state[InnerId], tasks[t].msg.cmd,
                           Messages(tasks[t].records), "Ok")
       IN /\ state' = [state EXCEPT ![InnerId] = e.state]
          /\ tasks' = [tasks EXCEPT ![t].pc = "done", ![t].result = e.result]
    /\ state_lock' = Release(state_lock, t)
    /\ seq_nr_lock' = Release(seq_nr_lock, t)
    /\ UNCHANGED <<journal, broker, addr, handle, seq_nr, dpc,
                   scheduled, messages, result, inflight, reply, resumes,
                   history, ended, nev, ingress, mailbox>>

\* Handler<GetState> for Inner: the future gets the lock of state, clones
\* the state and gives the lock back.
InnerGetState(t) ==
    /\ tasks[t].msg.kind = "GetState"
    /\ tasks[t].pc = "spawned"
    /\ MutexFree(state_lock)
    /\ tasks' = [tasks EXCEPT ![t].pc = "done", ![t].result = "Ok",
                              ![t].read = Some(state[InnerId])]
    /\ UNCHANGED <<pipeline, nev, ingress, mailbox, state_lock, seq_nr_lock>>

RECURSIVE Seqs(_, _)
\* The sequences over S of length n at most.
Seqs(S, n) ==
    IF n = 0 THEN {<<>>}
    ELSE LET shorter == Seqs(S, n - 1)
         IN shorter \cup {Append(q, x) : q \in shorter, x \in S}

\* A processor of the in-memory journal with some messages waiting.
InitInnerPending ==
    /\ InitPipeline
    /\ backend = "memory"
    /\ nev = NoVec(<<>>)
    /\ mailbox \in Seqs(Pending, MaxPending) \ {<<>>}
    /\ tasks = <<>>
    /\ state_lock = 0
    /\ seq_nr_lock = 0
    /\ InitIngress

NextInner ==
    \/ InnerHandle
    \/ \E t \in 1..Len(tasks) : StateLock(t)
    \/ \E t \in 1..Len(tasks) : SeqNrLock(t)
    \/ \E t \in 1..Len(tasks), now \in Times : InnerBegin(t, now)
    \/ \E t \in 1..Len(tasks) : InnerWrite(t)
    \/ \E t \in 1..Len(tasks) : InnerEffects(t)
    \/ \E t \in 1..Len(tasks) : InnerGetState(t)

SpecInner == InitInnerPending /\ [][NextInner]_vars

\* The arbiter of the processor runs its actor while a message waits and
\* polls every future that can go on.
SpecInnerFair == SpecInner /\ WF_vars(NextInner)

\* ---------------------------------------------- ingress: submits and drains

\* The commands submitted while the ingress is studied, as <<entity id,
\* command>>.
SubmittedIngress == {<<(<<97>>), "one">>}

\* Engine::enqueue: Handler<Enqueue> for Init returns a future, which is
\* spawned.
Submit(entity_id, cmd, fate) ==
    /\ Cardinality({j \in 1..Len(futures) : futures[j].kind = "submit"})
          < MaxSubmits
    /\ futures' = Append(futures, NewFuture("submit", <<entity_id, cmd>>, fate))
    /\ UNCHANGED <<pipeline, nev, inner, init_seq_nr, init_seq_nr_lock,
                   batch, batch_lock, queue, sent, awaited>>

\* The future of a submit gets the lock of seq_nr and runs to its next
\* await: the record is serialised with the counter as its number and
\* handed to the producer, and the counter is incremented.  A command that
\* cannot be serialised ends the future before the producer is called; a
\* record the producer refuses ends it with the broker error.
SubmitSend(j) ==
    /\ futures[j].kind = "submit"
    /\ futures[j].pc = "spawned"
    /\ MutexFree(init_seq_nr_lock)
    /\ IF futures[j].fate = "unenc"
       THEN /\ futures' = [futures EXCEPT ![j].pc = "done",
                                          ![j].result = "InvalidCommand"]
            /\ UNCHANGED <<init_seq_nr, init_seq_nr_lock, queue, sent>>
       ELSE LET accepted == futures[j].fate = "accept"
            IN /\ sent' = Append(sent, [stamp |-> init_seq_nr,
                                        accepted |-> accepted])
               /\ init_seq_nr' = Increment(init_seq_nr, accepted)
               /\ IF accepted
                  THEN /\ queue' = Append(queue,
                              [key |-> Some(futures[j].msg[1]),
                               payload |-> Some(futures[j].msg[2]),
                               stamp |-> init_seq_nr])
                       /\ futures' = [futures EXCEPT
                                         ![j].pc = "push",
                                         ![j].stamp = init_seq_nr]
                       /\ init_seq_nr_lock' = j
                  ELSE /\ futures' = [futures EXCEPT
                                         ![j].pc = "done",
                                         ![j].stamp = init_seq_nr,
                                         ![j].result = "Kafka"]
                       /\ UNCHANGED <<init_seq_nr_lock, queue>>
    /\ UNCHANGED <<pipeline, nev, inner, batch, batch_lock, awaited>>

\* It gets the lock of batch, pushes the delivery handle and ends with Ok;
\* its guards drop.
SubmitPush(j) ==
    /\ futures[j].pc = "push"
    /\ MutexFree(batch_lock)
    /\ batch' = push(batch, DeliveryFuture(futures[j].stamp))
    /\ futures' = [futures EXCEPT ![j].pc = "done", ![j].result = "Ok"]
    /\ init_seq_nr_lock' = Release(init_seq_nr_lock, j)
    /\ UNCHANGED <<pipeline, nev, inner, init_seq_nr, batch_lock, queue,
                   sent, awaited>>

InitSubmits ==
    /\ InitPipeline
    /\ backend = "memory"
    /\ nev = NoVec(<<>>)
    /\ InitInner
    /\ InitIngress

NextIngress ==
    \/ \E c \in SubmittedIngress, fate \in Fates : Submit(c[1], c[2], fate)
    \/ Deliver
    \/ \E j \in 1..Len(futures) : SubmitSend(j)
    \/ \E j \in 1..Len(futures) : SubmitPush(j)
    \/ Tick
    \/ \E j \in 1..Len(futures) : DrainLock(j)
    \/ \E j \in 1..Len(futures) : DrainAwait(j)
    \/ \E j \in 1..Len(futures) : DrainEnd(j)

SpecIngress == InitSubmits /\ [][NextIngress]_vars

\* ================================================================ claims

\* The function that holds one record for each of the numbers 1..k.
OneEach(k) == [nr \in 1..k |-> 1]

\* The step in which the processor of entity id ends a command with a
\* result, the engine staying up.
ProcessorReturns(id) ==
    /\ inflight.phase # "none"
    /\ inflight.entity_id = id
    /\ inflight' = NoMsg
    /\ dpc' = "loop"

LastResult == result[Len(result)]

\* The payload of the record decodes to a command; the command it decodes
\* to.
Decodes(msg) == msg.payload # None /\ from_slice(Unwrap(msg.payload)).ok
CmdOf(msg) == from_slice(Unwrap(msg.payload)).v

\* The step in which the consumer hands a chunk to the dispatcher.
Pulls == Waits /\ messages' # <<>>

\* The step in which a cycle of the dispatcher ends, the engine going on.
CycleEnd == dpc = "loop" /\ dpc' = "idle" /\ resumes' = resumes

\* The step asks the consumer to commit the offset o, and the consumer
\* queues the commit for the broker.
CommitQueued(o) == committing' = Append(committing, o)

\* The errors with which a journal write fails.
WriteErrors == {"StorageError", "ConnectionRetrievalError", "InvalidConfiguration"}

\* C1: for a processor created over an empty journal for whose every
\* command validate, directive, the journal write and apply succeeded,
\* once no command of the entity is in flight, the journal holds exactly one
\* record for each sequence number 1..k, k the number of events of those
\* commands, and the in-memory state is the fold of apply over those events
\* from the default state.
C1_SuccessfulCommandsJournalAndState ==
    \A id \in addr :
        (startedEmpty[id] /\ passed[id] /\ inflight.entity_id # id)
            => /\ JournalSeqNrs(id) = OneEach(Len(emitted[id]))
               /\ Some(state[id]) = FoldApply(DefaultState, emitted[id])

\* C2: when the journal write fails, the state and the counter of the
\* processor are what they were before the command was received.
C2_FailedWriteLeavesStateAndCounter ==
    [][\A id \in Entities :
          (ProcessorReturns(id) /\ inflight.phase = "write"
                /\ LastResult' \in WriteErrors)
              => (state'[id] = state[id] /\ seq_nr'[id] = inflight.seq0)]_vars

\* C3: when validate rejects the command, the processor returns a
\* Validation error, and journal, state and counter are unchanged.
C3_RejectedCommandChangesNothing ==
    [][\A id \in Entities :
          (ProcessorReturns(id) /\ inflight.phase = "sent"
                /\ ~validate(inflight.cmd, state[id]))
              => /\ result' = Append(result, "Validation")
                 /\ UNCHANGED <<journal, state, seq_nr>>]_vars

\* A command was rejected by validate after an earlier command of the
\* entity had advanced the counter.
C3_Witness ==
    /\ Len(result) > 0
    /\ LastResult = "Validation"
    /\ \E id \in addr : seq_nr[id] > 0 /\ state[id] # DefaultState

\* C4: a journal write that fails leaves no record of its batch in the
\* journal.
C4_FailedWriteLeavesNoRecord ==
    [][\A id \in Entities :
          (ProcessorReturns(id) /\ inflight.phase = "write"
                /\ LastResult' \in WriteErrors)
              => \A i \in 1..Len(inflight.records) :
                    inflight.records[i].seq_nr \notin DOMAIN JournalSeqNrs(id)']_vars

\* C5: for one entity, the records in the journal are numbered in the order
\* in which their commands stand on the command topic.
C5_JournalOrderFollowsBrokerOrder ==
    \A o1 \in origin, o2 \in origin :
        (o1.entity_id = o2.entity_id /\ o1.offset < o2.offset)
            => o1.seq_nr < o2.seq_nr

\* C6: a commit is handed to the consumer only in the step that ends a
\* cycle, only when no result of the chunk is a StorageError, a
\* ConnectionError or a ConnectionRetrievalError, it is the one commit of
\* that step and names the last record of the chunk; and the offset the
\* broker holds as committed moves only to an offset so handed over.
C6_CommitOnlyWhenSafe ==
    [][/\ Len(committing') > Len(committing)
          => /\ dpc = "loop" /\ dpc' = "idle"
             /\ Len(result) = Len(messages)
             /\ \A i \in 1..Len(result) :
                    /\ result[i] # "StorageError"
                    /\ result[i] # "ConnectionError"
                    /\ result[i] # "ConnectionRetrievalError"
             /\ CommitQueued(messages[Len(messages)])
       /\ committed' # committed
          => committing # <<>> /\ committed' = Head(committing)]_vars

\* The commit of a chunk of two records has reached the broker.
C6_Witness ==
    /\ dpc = "idle"
    /\ ended = "Ok"
    /\ committing = <<>>
    /\ committed >= 2
    /\ committed = position

\* C7: a record whose journal write failed with a StorageError stays ahead
\* of the committed offset until its events are journaled, so that a later
\* cycle of the same run can deliver it again.
C7_FailedRecordStaysDeliverable ==
    \A f \in failed : committed < f

\* C8: in every reachable state the journal holds, for each entity, exactly
\* one record for each of the sequence numbers 1..n, for some n >= 0.
C8_SequenceNumbersContiguous ==
    \A id \in Entities :
        JournalSeqNrs(id) = OneEach(Cardinality(DOMAIN JournalSeqNrs(id)))

\* The journal holds the records rs, as written by one call of write.
Holds(rs) ==
    IF backend = "memory"
    THEN \A i \in 1..Len(rs) :
            [k |-> mk_key(rs[i].entity_id, rs[i].seq_nr),
             v |-> BincodeRecord(rs[i])] \in storage
    ELSE /\ Len(events) >= Len(rs)
         /\ SubSeq(events, Len(events) - Len(rs) + 1, Len(events)) = rs

\* C9: a command whose directive yields the events evs, processed when the
\* counter is s, hands write one batch that holds evs in list order under
\* the numbers s+1..s+m; when the write succeeds the journal holds that
\* batch and the new state is the fold of apply over evs in list order.
C9_BatchNumberedAndAppliedInOrder ==
    [][\A id \in Entities :
          LET evs == directive(inflight.cmd, state[id]).v
              s == inflight.seq0
          IN /\ (inflight.phase = "sent" /\ inflight.entity_id = id
                    /\ inflight'.phase = "write")
                 => /\ Len(inflight'.records) = Len(evs)
                    /\ \A i \in 1..Len(evs) :
                          /\ inflight'.records[i].seq_nr = s + i
                          /\ inflight'.records[i].message = evs[i]
                          /\ inflight'.records[i].entity_id = id
             /\ (inflight.phase = "write" /\ inflight.entity_id = id
                    /\ inflight'.phase = "effects")
                 => /\ inflight'.records = inflight.records
                    /\ Holds(inflight.records)'
             /\ (ProcessorReturns(id) /\ inflight.phase = "effects"
                    /\ LastResult' = "Ok")
                 => /\ Messages(inflight.records) = evs
                    /\ Holds(inflight.records)
                    /\ Some(state'[id]) = FoldApply(state[id], evs)]_vars

\* A command of two events has been processed by a processor whose counter
\* stood at 1.
C9_Witness ==
    \E id \in addr :
        /\ state[id] = <<"A", "B", "A">>
        /\ seq_nr[id] = 3
        /\ inflight = NoMsg

\* The event written in a journal entry of the in-memory journal: the
\* message field is the last field of the encoded record.
StoredMessage(v) == EvtVariants[from_le_bytes(SubSeq(v, Len(v) - 3, Len(v))) + 1]

\* The events the in-memory journal holds for an entity under the numbers
\* 1..k, in ascending order.
StoredEvents(id, k) ==
    [i \in 1..k |->
        StoredMessage((CHOOSE e \in storage : e.k = mk_key(id, i)).v)]

\* C10: over the in-memory journal, when the journal holds the events
\* e1..ek of an entity under the numbers 1..k and no processor holds the
\* entity in memory, get-state answers the fold of apply over e1..ek from
\* the default state.
C10_ColdPathRecovery ==
    (backend = "memory" /\ reply.request = "state")
        => LET id == reply.entity_id
               k == Cardinality(DOMAIN JournalSeqNrs(id))
           IN (k >= 1 /\ JournalSeqNrs(id) = OneEach(k) /\ id \notin addr)
                 => /\ reply.kind = "Ok"
                    /\ Some(reply.state) = FoldApply(DefaultState, StoredEvents(id, k))

\* C11: whenever no command of an entity is in flight and the journal
\* holds records of it, recovering the entity from the journal (replay of
\* [0, highest], fold of apply from the default state) gives the state its
\* live processor holds in memory.
C11_ReplayEqualsLiveState ==
    \A id \in addr :
        (inflight.entity_id # id /\ JournalRecords(id) # {})
            => \A r \in Recoveries(id, 1) :
                  r.kind = "Ok" /\ r.state = state[id]

\* C12: a get-state answered while the processor of the entity holds the
\* events of its successful commands, none being in flight, returns the
\* state that includes all of them.
C12_GetStateReturnsLatest ==
    LET id == reply.entity_id
    IN (reply.request = "state" /\ id \in addr /\ startedEmpty[id]
            /\ inflight.entity_id # id /\ produced[id] # <<>>)
          => /\ reply.kind = "Ok"
             /\ Some(reply.state) = FoldApply(DefaultState, produced[id])

\* C13: over the in-memory journal, a get-state for an entity of which the
\* journal holds no record is answered with the error that says there is no
\* such entity, whatever the journal holds of other entities.
C13_NoSuchEntity ==
    (backend = "memory" /\ reply.request = "state"
            /\ JournalRecords(reply.entity_id) = {})
        => reply.kind = "InvalidCommand"

\* C14: over the in-memory journal, highest(entity) is the greatest
\* sequence number among the records the journal holds for exactly that
\* entity, and absent when it holds none.
C14_HighestOfExactEntity ==
    backend = "memory"
        => \A id \in Entities :
              \A highest \in read_highest_sequence_number(id) :
                 /\ highest.ok
                 /\ highest.v =
                        IF JournalRecords(id) = {} THEN None
                        ELSE Some(SetMax(DOMAIN JournalSeqNrs(id)))

RECURSIVE Ascending(_)
\* The numbers of a finite set, in ascending order.
Ascending(S) ==
    IF S = {} THEN <<>>
    ELSE LET m == CHOOSE x \in S : \A y \in S : x <= y
         IN <<m>> \o Ascending(S \ {m})

\* The windows asked of replay.
Windows == {w \in (0..2) \X (0..2) \X (1..3) : w[1] <= w[2]}

\* C15: over the in-memory journal, replay(entity, from, to, max) succeeds
\* and yields the records of the entity numbered within [from, to], in
\* ascending order of sequence number, cut after the first max.
C15_ReplayWindowInOrder ==
    backend = "memory"
        => \A id \in Entities, w \in Windows :
              \A r \in replay(id, w[1], w[2], w[3], 1) :
                 /\ r.ok
                 /\ [i \in 1..Len(r.v) |-> r.v[i].seq_nr] =
                        Take(Ascending({nr \in DOMAIN JournalSeqNrs(id) :
                                           w[1] <= nr /\ nr <= w[2]}), w[3])

\* C16: over the in-memory journal, every record that replay returns is the
\* record that was written under its key: encoding it again gives the stored
\* bytes, so entity id, sequence number, timestamp and payload are those
\* written.  The clock may have moved between write and replay.
C16_RecordRoundTrip ==
    backend = "memory"
        => \A id \in Entities, now \in {1, 2} :
              \A rs \in MemReplay(storage, id, 0, 3, 3 + BUFFER_SIZE, now) :
                 \A i \in 1..Len(rs) :
                    [k |-> mk_key(id, rs[i].seq_nr), v |-> BincodeRecord(rs[i])]
                        \in storage

\* C17: every NonEmptyVec that user code obtains holds at least one
\* element; new fails on the empty vector and otherwise wraps the vector,
\* whose elements are iterated in their order; one(x) holds x alone.
C17_NonEmptyVecNeverEmpty ==
    nev.how # "none"
        => /\ nev.made.ok => Len(nev.made.v) >= 1
           /\ nev.how = "new" => nev.made.ok = (nev.input # <<>>)
           /\ (nev.made.ok /\ nev.items # None /\ nev.how \in {"new", "one"})
                 => Unwrap(nev.items) = nev.input

\* C18: a cycle whose failing records all failed with a Validation error
\* hands the commit of the last record of its chunk to the consumer, which
\* queues it unless it refuses the call; no chunk that the dispatcher
\* pulls holds a record at or below the offset the broker holds as
\* committed; and a rejected command of such a cycle is journaled later
\* only while its offset is above the offset the broker holds as committed.
C18_ValidationIsTerminal ==
    [][/\ (/\ CycleEnd
           /\ ended' = "Ok"
           /\ Len(result) = Len(messages)
           /\ \A i \in 1..Len(result) : result[i] \in {"Ok", "Validation"}
           /\ \E j \in 1..Len(result) : result[j] = "Validation")
          => CommitQueued(messages[Len(messages)])
       /\ Pulls
          => \A i \in 1..Len(messages') :
                 messages'[i] # ErrItem => messages'[i] > committed
       /\ \A o \in origin' \ origin :
              o.offset \in terminal => o.offset > committed]_vars

\* C18 as stated: a cycle whose failing records all failed with a
\* Validation error hands the commit of the last record of its chunk to the
\* consumer, and from then on a command the cycle rejected is in no chunk
\* the dispatcher pulls and no record of the journal comes from it.
C18_ValidationNeverRedelivered ==
    [][/\ (/\ CycleEnd
           /\ ended' = "Ok"
           /\ Len(result) = Len(messages)
           /\ \A i \in 1..Len(result) : result[i] \in {"Ok", "Validation"}
           /\ \E j \in 1..Len(result) : result[j] = "Validation")
          => CommitQueued(messages[Len(messages)])
       /\ Pulls
          => \A i \in 1..Len(messages') : messages'[i] \notin terminal
       /\ \A o \in origin' : o.offset \notin terminal]_vars

\* The rejected command at offset 1 has been committed and the record after
\* it is in the hands of a processor.
C18_Witness ==
    /\ committed >= 1
    /\ 1 \in terminal
    /\ topic[1].payload = Some("invalid")
    /\ [offset |-> 1, result |-> "Validation"] \in outcome
    /\ inflight.phase = "sent"
    /\ inflight.offset = 2

\* A command that validate rejected, in a cycle that handed its commit to
\* the consumer, was delivered again before the broker held the commit,
\* and a record of the journal comes from it.
C18_JournaledLater ==
    \E o \in origin : o.offset \in terminal /\ o.offset > committed

\* C19: a step of the processing of a command of entity A leaves the state,
\* the counter and the journal records of every other entity B unchanged,
\* and the state of every processor is the fold of apply over the events of
\* the commands it completed.
C19_NoCrossEntityInterference ==
    [][/\ \A A \in Entities, B \in Entities :
             (/\ A # B /\ dpc = "loop" /\ dpc' = "loop"
              /\ (inflight.entity_id = A \/ inflight'.entity_id = A))
                => /\ state'[B] = state[B]
                   /\ seq_nr'[B] = seq_nr[B]
                   /\ JournalRecords(B)' = JournalRecords(B)
       /\ \A id \in addr' :
             Some(state'[id]) = FoldApply(DefaultState, produced'[id])]_vars

\* Both entities have a processor that holds events, and records in the
\* journal.
C19_Witness ==
    \A id \in Entities :
        id \in addr /\ state[id] # DefaultState /\ JournalRecords(id) # {}

\* The elements of a appear in b, in the order of a.
IsSubseq(a, b) ==
    \E f \in [1..Len(a) -> 1..Len(b)] :
        /\ \A i \in 1..Len(a) : b[f[i]] = a[i]
        /\ \A i \in 1..Len(a), j \in 1..Len(a) : i < j => f[i] < f[j]

\* The sequence numbers a journal of this model can hold: a command yields
\* at most two events and a record is processed once per delivery.
SeqNrs == 1..(2 * MaxTopic * (MaxResumes + 1))

\* The events the journal holds for an entity: in ascending order of
\* sequence number for the in-memory journal, in insert order for the
\* relational one.
JournalEvents(id) ==
    IF backend = "memory"
    THEN LET at(n) == {e \in storage : e.k = mk_key(id, n)}
             nrs == {n \in SeqNrs : at(n) # {}}
         IN [i \in 1..Cardinality(nrs) |->
                StoredMessage((CHOOSE e \in storage : \E n \in nrs :
                    /\ e \in at(n)
                    /\ Cardinality({m \in nrs : m <= n}) = i).v)]
    ELSE Messages(SelectSeq(events, LAMBDA r : r.entity_id = id))

\* C20: the state of a processor changes only in the step that ends a
\* command whose journal write has returned success, the journal holding
\* the batch, and in every reachable state each event a processor's state
\* reflects is in the journal.
C20_JournalFirstThenApply ==
    /\ [][\A id \in Entities :
             (state'[id] # state[id] /\ dpc' = "loop")
                => /\ ProcessorReturns(id)
                   /\ inflight.phase = "effects"
                   /\ Holds(inflight.records)
                   /\ Some(state'[id]) =
                          FoldApply(state[id], Messages(inflight.records))]_vars
    /\ [](\A id \in addr : IsSubseq(state[id], JournalEvents(id)))

\* A journal write has failed for a processor that holds events in memory.
C20_Witness ==
    /\ Len(result) > 0
    /\ LastResult \in WriteErrors
    /\ \E id \in addr : state[id] # DefaultState

\* C21: when the journal write of a command has succeeded and the fold of
\* apply over its events yields a state, the processor's state after the
\* command is that new state, whether or not the effects hook reports an
\* error.
C21_EffectsErrorKeepsNewState ==
    [][\A id \in Entities :
          LET new_state == FoldApply(state[id], Messages(inflight.records))
          IN (/\ ProcessorReturns(id)
              /\ inflight.phase = "effects"
              /\ new_state # None)
                => state'[id] = Unwrap(new_state)]_vars

\* C22: when the journal write of a command has succeeded and the fold of
\* apply over its events fails, the command ends with an error, the
\* processor's state is the state it had before the command, and the
\* journal holds the batch of the command.
C22_ApplyFailureKeepsStateAndJournal ==
    [][\A id \in Entities :
          (/\ ProcessorReturns(id)
           /\ inflight.phase = "write"
           /\ LastResult' \notin WriteErrors
           /\ FoldApply(state[id], Messages(inflight.records)) = None)
             => /\ LastResult' = "Error"
                /\ state'[id] = state[id]
                /\ Holds(inflight.records)']_vars

\* A command whose second event cannot be applied has ended with an error
\* for a processor that holds the event of an earlier command, and the
\* journal holds the records of both commands.
C22_Witness ==
    /\ Len(result) > 0
    /\ LastResult = "Error"
    /\ inflight = NoMsg
    /\ \E id \in addr :
          /\ state[id] = <<"A">>
          /\ Cardinality(JournalRecords(id)) = 3

\* The storage and connection errors, which hold back the offset commit.
StorageClass == {"StorageError", "ConnectionError", "ConnectionRetrievalError"}

\* C23: over either journal, a command whose journal write fails ends with
\* a storage or connection error, and a cycle in which the write of a
\* record failed hands no commit to the consumer.
C23_WriteFailureHoldsCommit ==
    [][/\ \A id \in Entities :
             (/\ ProcessorReturns(id)
              /\ inflight.phase = "write"
              /\ LastResult' \in WriteErrors)
                => LastResult' \in StorageClass
       /\ (/\ CycleEnd
           /\ \E i \in 1..Len(result) : result[i] \in WriteErrors)
             => committing' = committing]_vars

\* C24: a cycle in which the result of a record is InvalidCommand hands
\* no commit to the consumer, and the record whose payload does not decode
\* is not handed to a processor.
C24_InvalidCommandHoldsCommit ==
    [][/\ (/\ CycleEnd
           /\ \E i \in 1..Len(result) : result[i] = "InvalidCommand")
             => committing' = committing
       /\ (inflight.phase = "none" /\ inflight'.phase = "sent")
             => Decodes(topic[inflight'.offset])]_vars

\* C26: a processor created for an entity starts with the state that is the
\* fold of apply over the entity's events in the journal and with the
\* highest sequence number the journal holds for the entity (0 when it
\* holds none), and no record handed to the journal carries a sequence
\* number the journal already holds for the entity.
C26_ProcessorStartsFromJournal ==
    [][\A id \in Entities :
          /\ (id \notin addr /\ id \in addr')
                => /\ Some(state'[id]) = FoldApply(DefaultState, JournalEvents(id))
                   /\ seq_nr'[id] = IF JournalRecords(id) = {} THEN 0
                                    ELSE SetMax(DOMAIN JournalSeqNrs(id))
          /\ (/\ inflight.phase = "sent" /\ inflight.entity_id = id
              /\ inflight'.phase = "write")
                => \A i \in 1..Len(inflight'.records) :
                      inflight'.records[i].seq_nr \notin DOMAIN JournalSeqNrs(id)]_vars

\* C27: the committed offset covers no record whose last processing ended
\* with a storage or connection error, unless the journal holds a record
\* that came from it.
C27_NoCommitOverFailedRecord ==
    \A f \in failed :
        committed >= f => \E o \in origin : o.offset = f

\* C28: within a cycle a record is sent to its processor only when the
\* results of all records before it in the chunk, and of no other, are in;
\* a result that comes in is that of the record sent; and a commit is
\* handed to the consumer only when the result of every record of the chunk
\* is in.
C28_ChunkInOrderOneAtATime ==
    [][/\ (inflight.phase = "none" /\ inflight'.phase = "sent")
             => /\ Len(result) < Len(messages)
                /\ inflight'.offset = messages[Len(result) + 1]
                /\ result' = result
       /\ (inflight.phase # "none" /\ dpc' = "loop")
             => /\ inflight.offset = messages[Len(result) + 1]
                /\ \/ inflight' # NoMsg /\ result' = result
                   \/ inflight' = NoMsg /\ Len(result') = Len(result) + 1
       /\ Len(committing') > Len(committing)
             => /\ Len(result) = Len(messages)
                /\ inflight = NoMsg]_vars

\* The second record of a chunk of two is in the hands of its processor,
\* the result of the first being in.
C28_Witness ==
    /\ Len(messages) = 2
    /\ Len(result) = 1
    /\ inflight.phase = "sent"
    /\ inflight.offset = messages[2]

\* C29: when a cycle ends whose chunk holds no error of the consumer,
\* every record of the chunk that has a readable key and a payload that
\* decodes has been sent to its processor, whatever the keys of the other
\* records of the chunk.
C29_BadKeyDroppedAlone ==
    [][(CycleEnd /\ \A i \in 1..Len(messages) : messages[i] # ErrItem)
          => \A i \in 1..Len(messages) :
                (/\ KeyOf(topic[messages[i]]).ok
                 /\ Decodes(topic[messages[i]]))
                   => i <= Len(result)]_vars

\* The cycles of the dispatcher that are running.
Running == IF dpc = "loop" THEN 1 ELSE 0

\* C30: the cycle that runs and the Dequeue messages that wait are one in
\* all: a cycle starts only from a waiting message, and the end of a
\* cycle, with or without commit, on an error of the consumer in the
\* chunk, on a record whose key cannot be read or on a commit the consumer
\* refuses, schedules exactly one further cycle.
C30_OneCycleAtATimeForever ==
    [][/\ scheduled + Running = 1
       /\ scheduled' + Running' = 1
       /\ CycleEnd
             => /\ scheduled' = scheduled + 1
                /\ ended' \in {"Ok", "Kafka", "InvalidKey"}
       /\ (dpc = "idle" /\ dpc' = "loop")
             => scheduled = 1 /\ scheduled' = 0]_vars

\* The second cycle of a run has ended on an error of the consumer, the
\* first having ended on a record without key: nothing is committed and
\* the next cycle is scheduled.
C30_Witness ==
    /\ Len(topic) = 2
    /\ topic[1].key = None
    /\ position = 2
    /\ committed = 0
    /\ committing = <<>>
    /\ resumes = 0
    /\ dpc = "idle"
    /\ ended = "Kafka"
    /\ scheduled = 1

\* The task is inside the critical section of process-command: it has the
\* locks and has not ended.
InCritical(t) == tasks[t].pc \in {"locked", "write", "effects"}

\* C25: at most one task of a processor is inside the critical section of
\* process-command, and while a task is inside it every step taken by
\* another party leaves state and seq_nr of the processor unchanged and is
\* not the step of another task: no other process-command and no get-state
\* reads or writes them, however many messages wait at the processor.
C25_SingleWriterPerEntity ==
    [][/\ Cardinality({t \in 1..Len(tasks) : InCritical(t)}) <= 1
       /\ Cardinality({t \in 1..Len(tasks') : InCritical(t)'}) <= 1
       /\ \A t \in 1..Len(tasks) :
             (InCritical(t) /\ tasks'[t] = tasks[t])
                => /\ state' = state
                   /\ seq_nr' = seq_nr
                   /\ \A u \in 1..Len(tasks) : tasks'[u] = tasks[u]]_vars

\* A process-command is between its write and its end while another
\* process-command and a get-state of the same processor have been spawned
\* and wait.
C25_Witness ==
    \E t, u, v \in 1..Len(tasks) :
        /\ tasks[t].pc = "write"
        /\ tasks[u].msg.kind = "Process" /\ tasks[u].pc = "spawned"
        /\ tasks[v].msg.kind = "GetState" /\ tasks[v].pc = "spawned"

\* The step is not one in which the engine is stopped and started again.
EngineRuns == resumes' = resumes \/ dpc' = "loop"

\* C31: in one run of the engine at most one processor is started for an
\* entity id; the registry holds a processor for exactly the keys observed;
\* an entry, once made, is neither removed nor replaced while the engine
\* runs; and every record is sent to the processor registered for its key,
\* which is the one registered when the key was first observed.
C31_RegistryOneProcessorPerEntity ==
    /\ [][/\ EngineRuns
             => /\ addr \subseteq addr'
                /\ \A id \in Entities :
                      handle[id] # 0 => handle'[id] = handle[id]
          /\ (inflight.phase = "none" /\ inflight'.phase = "sent")
             => LET id == inflight'.entity_id
                IN /\ Some(id) = topic[inflight'.offset].key
                   /\ id \in addr'
                   /\ inflight'.to = handle'[id]
                   /\ starts'[inflight'.to] = id
                   /\ id \in addr => inflight'.to = handle[id]]_vars
    /\ [](/\ \A i \in 1..Len(starts), j \in 1..Len(starts) :
                i # j => starts[i] # starts[j]
          /\ \A id \in Entities : (id \in addr) = (handle[id] # 0)
          /\ \A id \in addr : starts[handle[id]] = id)

\* The second record of an entity is in the hands of the processor that was
\* started for the first, the processor of another entity having been
\* started in between.
C31_Witness ==
    /\ Len(starts) = 2
    /\ inflight.phase = "sent"
    /\ inflight.to = 1
    /\ resumes = 1

\* C32: a get-state of the engine leaves a processor registered for the
\* entity, and when a processor of the entity was live it answers with a
\* copy of the state that processor holds in memory.
C32_GetStateRoutedToProcessor ==
    [][reply'.request = "state"
          => LET id == reply'.entity_id
             IN /\ id \in addr'
                /\ id \in addr
                      => reply'.kind = "Ok" /\ reply'.state = state[id]]_vars

\* The results of a command that was dispatched and ended journaled, all
\* its events written, or rejected by validate.
Settled == {"Ok", "Error", "InvalidState", "Validation"}

\* C33: with fair scheduling and no infrastructure failure, every record on
\* the command topic that has a readable key and a payload that decodes is
\* eventually sent to the processor of its entity and ends journaled or
\* rejected by validate.
C33_EveryValidRecordSettles ==
    \A o \in 1..MaxTopic :
        (/\ Len(topic) >= o
         /\ KeyOf(topic[o]).ok
         /\ Decodes(topic[o]))
            ~> (\E r \in outcome : r.offset = o /\ r.result \in Settled)

\* The record that follows, in the chunk, the one a processor is handling.
NextOfChunk == topic[messages[Len(result) + 2]]

\* C34: the dispatcher does not wait for the end of the command of one
\* entity before it starts the command of another entity of the same chunk:
\* while a processor handles a record and the next record of the chunk is a
\* command of another entity, the loop can send that record, so that both
\* processors are in their critical sections at once.
C34_ProcessorsRunConcurrently ==
    (/\ dpc = "loop"
     /\ inflight.phase # "none"
     /\ Len(result) + 2 <= Len(messages)
     /\ messages[Len(result) + 2] # ErrItem
     /\ KeyOf(NextOfChunk).ok
     /\ KeyOf(NextOfChunk).v # inflight.entity_id
     /\ Decodes(NextOfChunk))
        => ENABLED Dispatch

\* C35: under every interleaving of submits and drains, the numbers stamped
\* on the records handed to the producer start at 0 and are strictly
\* increasing in the order in which the records are handed over, hence
\* pairwise distinct.
C35_IngressSeqNrMonotonic ==
    /\ sent # <<>> => sent[1].stamp = 0
    /\ \A i \in 1..Len(sent), j \in 1..Len(sent) :
          i < j => sent[i].stamp < sent[j].stamp

\* Three records have been handed to the producer, the second of which it
\* refused, while the submit of the third waits for the buffer, which
\* a drain holds.
C35_Witness ==
    /\ Len(sent) = 3
    /\ ~sent[2].accepted
    /\ batch_lock # 0
    /\ \E j \in 1..Len(futures) : futures[j].pc = "push"

\* The step in which the future j of a submit ends.
SubmitReturns(j) ==
    /\ futures[j].kind = "submit"
    /\ futures[j].pc # "done"
    /\ futures'[j].pc = "done"

\* C36: a submit ends with Ok exactly when the producer accepted its
\* record, and the step in which it ends with Ok appends the delivery
\* handle of that record, once, to the buffer, which is the only change the
\* submit makes to the buffer; when the producer refuses the record the
\* submit ends with the broker error and leaves the buffer as it was.
C36_SubmitOkIffAccepted ==
    [][\A j \in 1..Len(futures) :
          /\ SubmitReturns(j)
                => /\ (futures'[j].result = "Ok") = (futures[j].fate = "accept")
                   /\ futures'[j].result = "Ok"
                         => batch' = batch \o <<DeliveryFuture(futures'[j].stamp)>>
                   /\ futures[j].fate = "refuse"
                         => futures'[j].result = "Kafka" /\ batch' = batch
          /\ (/\ futures[j].kind = "submit"
              /\ futures'[j] # futures[j]
              /\ ~SubmitReturns(j))
                => batch' = batch]_vars

\* A submit whose record the producer accepted has ended with Ok while the
\* handle of an earlier record is still in the buffer, and another submit
\* has ended with the broker error.
C36_Witness ==
    /\ Len(batch) = 2
    /\ \E j \in 1..Len(futures) : futures[j].result = "Kafka"
    /\ \E j \in 1..Len(futures) :
          futures[j].result = "Ok" /\ batch[2] = DeliveryFuture(futures[j].stamp)

\* C37: under every interleaving of submits and drains, a delivery handle
\* that leaves the buffer has been awaited by a drain.
C37_NoHandleDroppedUnawaited ==
    [][\A i \in 1..Len(batch) :
          (\A k \in 1..Len(batch') : batch'[k] # batch[i])
              => \E a \in awaited' : a.handle = batch[i]]_vars

\* Two drains overlap: the first has ended, the second holds the buffer;
\* each has awaited a handle, and the handle of a submit that came during
\* the pass of the first is in the buffer.
C37_Witness ==
    /\ \E a \in awaited, b \in awaited : a.by # b.by
    /\ \E j \in 1..Len(futures) :
          futures[j].kind = "drain" /\ futures[j].pc = "done"
    /\ \E j \in 1..Len(futures) : futures[j].pc = "pass"
    /\ batch # <<>>

\* The record at offset o of the topic is a command that validate accepts
\* and for which directive returns an error.
DirectiveFails(o) ==
    /\ KeyOf(topic[o]).ok
    /\ Decodes(topic[o])
    /\ validate(CmdOf(topic[o]), state[KeyOf(topic[o]).v])
    /\ ~directive(CmdOf(topic[o]), state[KeyOf(topic[o]).v]).ok

\* The error directive returns for the command at offset o.
DirectiveError(o) == directive(CmdOf(topic[o]), state[KeyOf(topic[o]).v]).v

\* The step in which a cycle ends, all results of its chunk being in and
\* the consumer refusing no call.
CycleEnds ==
    /\ CycleEnd
    /\ ended' = "Ok"
    /\ Len(messages) >= 1
    /\ Len(result) = Len(messages)

\* C38 as stated: when directive returns an error for a command that
\* validate accepted, the processor returns that error and leaves journal,
\* state and counter as they were, and a cycle whose other records
\* succeeded hands the commit of the last record of its chunk to the
\* consumer.
C38_DirectiveErrorAlwaysCommits ==
    [][/\ \A id \in Entities :
             (/\ ProcessorReturns(id)
              /\ inflight.phase = "sent"
              /\ DirectiveFails(inflight.offset))
                => /\ result' = Append(result, DirectiveError(inflight.offset))
                   /\ UNCHANGED <<journal, state, seq_nr>>
       /\ (/\ CycleEnds
           /\ \E i \in 1..Len(messages) : DirectiveFails(messages[i])
           /\ \A i \in 1..Len(messages) :
                 DirectiveFails(messages[i]) \/ result[i] = "Ok")
             => CommitQueued(messages[Len(messages)])]_vars

\* C38: when directive returns an error for a command that validate
\* accepted, the processor returns that error and leaves journal, state and
\* counter as they were; a cycle whose other records succeeded hands the
\* commit of the last record of its chunk to the consumer when no such
\* error is a storage or connection error, and hands it no commit when one
\* is.
C38_DirectiveErrorPassesThrough ==
    [][/\ \A id \in Entities :
             (/\ ProcessorReturns(id)
              /\ inflight.phase = "sent"
              /\ DirectiveFails(inflight.offset))
                => /\ result' = Append(result, DirectiveError(inflight.offset))
                   /\ UNCHANGED <<journal, state, seq_nr>>
       /\ (/\ CycleEnds
           /\ \E i \in 1..Len(messages) : DirectiveFails(messages[i])
           /\ \A i \in 1..Len(messages) :
                 DirectiveFails(messages[i]) \/ result[i] = "Ok")
             => IF \E i \in 1..Len(messages) :
                      /\ DirectiveFails(messages[i])
                      /\ DirectiveError(messages[i]) \in StorageClass
                THEN committing' = committing
                ELSE CommitQueued(messages[Len(messages)])]_vars

\* A chunk whose second record is a command for which directive returns
\* InvalidCommand has been committed, the processor of the entity holding
\* the event and the number of the first record.
C38_Witness ==
    /\ Len(topic) = 2
    /\ topic[2].payload = Some("nodir")
    /\ committed = 2
    /\ dpc = "idle"
    /\ [offset |-> 2, result |-> "InvalidCommand"] \in outcome
    /\ \E id \in addr : seq_nr[id] = 1 /\ state[id] = <<"A">>

\* Every message sent to the processor has been handled to its end.
AllDone ==
    /\ mailbox = <<>>
    /\ \A t \in 1..Len(tasks) : tasks[t].pc = "done"

\* C39: a task takes the lock of seq_nr only while it holds the lock of
\* state, a task that has ended holds no lock, whichever way it ended, and
\* under fair scheduling every process-command and get-state sent to the
\* processor comes to its end.
C39_ProcessorDeadlockFree ==
    /\ [][\A t \in 1..Len(tasks') :
             /\ (seq_nr_lock' = t /\ seq_nr_lock # t) => state_lock = t
             /\ tasks'[t].pc = "done"
                   => state_lock' # t /\ seq_nr_lock' # t]_vars
    /\ [](AllDone => state_lock = 0 /\ seq_nr_lock = 0)
    /\ <>AllDone

\* Three commands have come to their end, one with the error of the
\* journal write, one with the error of apply and one with the error of
\* the effects hook, and the locks are free.
C39_Witness ==
    /\ AllDone
    /\ state_lock = 0 /\ seq_nr_lock = 0
    /\ \A r \in {"InvalidConfiguration", "Error", "InvalidState"} :
          \E t \in 1..Len(tasks) : tasks[t].result = r

\* C40: while the engine runs the counter of a processor never decreases;
\* in every reachable state it is at least the highest sequence number the
\* processor has put in the journal; and every record a processor hands to
\* the journal carries the entity id under which the processor is
\* registered.
C40_CounterCoversWrittenRecords ==
    /\ [][/\ EngineRuns
             => \A id \in addr : seq_nr'[id] >= seq_nr[id]
          /\ \A i \in 1..Len(inflight'.records) :
                /\ inflight'.records[i].entity_id = inflight'.entity_id
                /\ starts'[inflight'.to] = inflight'.records[i].entity_id]_vars
    /\ [](\A id \in addr : seq_nr[id] >= wrote[id])

\* A processor has written the records of two commands and then a batch of
\* which a part only reached the journal: its counter is past the highest
\* number it wrote.
C40_Witness ==
    \E id \in addr :
        /\ wrote[id] = 3
        /\ seq_nr[id] = 4
        /\ inflight = NoMsg

====
